---- MODULE Spec2Model ----
(***************************************************************************)
(* Model of the forum application's permission, pagination, CSRF,          *)
(* sanitizer and session-resolution core (app/services/utils.py,           *)
(* app/services/board.py, app/services/auth.py), of the unsafe routes of   *)
(* app/routers/*.py, and of the comment, board, bookmark and post services *)
(* over the external store (app/services/*.py).                            *)
(*                                                                         *)
(* Python values are represented as follows.                               *)
(*   None              the record [is_none |-> TRUE]                       *)
(*   Optional[str]     None or [str |-> s], s a sequence of code points    *)
(*   HTML text         [html |-> s], s a sequence of lexical items         *)
(*   a table           the set of its rows (bookmarks: the sequence of its *)
(*                     rows in insertion order)                            *)
(*   dict              a record; a key the dict lacks is a field the       *)
(*                     record lacks (see Get)                              *)
(*   a call's outcome  [ret |-> v] when it returns v,                      *)
(*                     [raises |-> e] when it raises e                     *)
(***************************************************************************)
EXTENDS Integers, Sequences, FiniteSets, TLC

VARIABLES
    board,          \* check_*_permission: the board dict
    user,           \* check_*_permission: the identity (None or a user dict)
    permitted,      \* check_*_permission: the call made and its result
    total,          \* calculate_pagination: argument total
    page,           \* calculate_pagination: argument page
    per_page,       \* calculate_pagination: argument per_page
    pagination,     \* calculate_pagination: the returned dict
    cookie_token,   \* verify_csrf_token: argument cookie_token
    form_token,     \* verify_csrf_token: argument form_token
    csrf_result,    \* verify_csrf_token: outcome of the call
    browser,        \* the client: its csrf_token cookie and the pages it was sent
    token,          \* get_current_user: the access_token cookie
    users,          \* the users table of the external store
    now,            \* the clock jwt.decode compares exp against
    store_mode,     \* how the external store answers during the request
    current_user,   \* get_current_user: outcome of the call
    required,       \* require_auth / require_admin: the call made and its outcome
    request,        \* the HTTP request being handled
    response,       \* the handler's response to it
    content,        \* sanitize_html / sanitize_text: the argument
    sanitized,      \* sanitize_*: the call made, its result and the result's result
    posts,          \* the posts table of the external store
    comments,       \* the comments table
    boards,         \* the boards table
    bookmarks,      \* the bookmarks table, its rows in the order of their insertion
    service_calls   \* per worker, the service call in progress

permVars == <<board, user, permitted>>
pageVars == <<total, page, per_page, pagination>>
csrfVars == <<cookie_token, form_token, csrf_result, browser>>
authVars == <<token, users, now, store_mode, current_user, required>>
httpVars == <<request, response>>
sanVars == <<content, sanitized>>
storeVars == <<posts, comments, boards, bookmarks, service_calls>>
notPerm == <<pageVars, csrfVars, authVars, httpVars, sanVars, storeVars>>
notPage == <<permVars, csrfVars, authVars, httpVars, sanVars, storeVars>>
notCsrf == <<permVars, pageVars, authVars, httpVars, sanVars, storeVars>>
notAuth == <<permVars, pageVars, csrfVars, httpVars, sanVars, storeVars>>
notHttp == <<permVars, pageVars, csrfVars, authVars, sanVars, storeVars>>
notSan == <<permVars, pageVars, csrfVars, authVars, httpVars, storeVars>>
notStore == <<permVars, pageVars, csrfVars, authVars, httpVars, sanVars>>
vars == <<board, user, permitted, total, page, per_page, pagination,
          cookie_token, form_token, csrf_result, browser, token, users, now,
          store_mode, current_user, required, request, response,
          content, sanitized, posts, comments, boards, bookmarks,
          service_calls>>

None == [is_none |-> TRUE]

\* dict.get(key, default)
Get(d, key, default) == IF key \in DOMAIN d THEN d[key] ELSE default

Max(a, b) == IF a >= b THEN a ELSE b

Min(a, b) == IF a <= b THEN a ELSE b

\* list(range(lo, hi + 1))
Range(lo, hi) == [i \in 1..Max(0, hi - lo + 1) |-> lo + i - 1]

(***************************************************************************)
(* Permission evaluator: BoardService.check_read_permission and            *)
(* BoardService.check_write_permission.                                    *)
(***************************************************************************)

\* Values a board's can_read / can_write column can hold; "owner" stands
\* for any string that is none of the three policies.
PolicyValues == {"all", "member", "admin", "owner"}

\* Board dicts: each policy key is present with some value, or missing.
Boards == UNION { [keys -> PolicyValues] : keys \in SUBSET {"can_read", "can_write"} }

\* Identities: no identity, or a user row of the store.
UserIds == {"u1", "u2"}

UserRows == [id : UserIds, is_admin : BOOLEAN]

Identities == {None} \cup UserRows

check_read_permission_noauth(b, u) ==
    LET can_read == Get(b, "can_read", "all") IN
    IF can_read = "all" THEN TRUE
    ELSE IF can_read = "member" THEN TRUE
    ELSE IF can_read = "admin" THEN u # None /\ Get(u, "is_admin", FALSE)
    ELSE FALSE

check_read_permission(b, u) ==
    LET can_read == Get(b, "can_read", "all") IN
    IF can_read = "all" THEN TRUE
    ELSE IF can_read = "member" THEN u # None
    ELSE IF can_read = "admin" THEN u # None /\ Get(u, "is_admin", FALSE)
    ELSE FALSE

check_write_permission_anon(b, u) ==
    LET can_write == Get(b, "can_write", "member") IN
    IF can_write = "all" THEN TRUE
    ELSE IF u = None THEN FALSE
    ELSE IF can_write = "member" THEN TRUE
    ELSE IF can_write = "admin" THEN Get(u, "is_admin", FALSE)
    ELSE FALSE

check_write_permission(b, u) ==
    IF u = None THEN FALSE
    ELSE LET can_write == Get(b, "can_write", "member") IN
         IF can_write = "all" THEN TRUE
         ELSE IF can_write = "member" THEN TRUE
         ELSE IF can_write = "admin" THEN Get(u, "is_admin", FALSE)
         ELSE FALSE

PermInit ==
    /\ board \in Boards
    /\ user \in Identities
    /\ permitted = None

CheckRead ==
    /\ permitted' = [op |-> "read", ret |-> check_read_permission(board, user)]
    /\ UNCHANGED <<board, user>>
    /\ UNCHANGED notPerm

CheckWrite ==
    /\ permitted' = [op |-> "write", ret |-> check_write_permission(board, user)]
    /\ UNCHANGED <<board, user>>
    /\ UNCHANGED notPerm

(***************************************************************************)
(* Pagination calculator: calculate_pagination.                            *)
(***************************************************************************)

MaxTotal == 20

MaxPage == 9

MaxPerPage == 3

calculate_pagination_shrink(t, p, pp) ==
    LET total_pages == IF t > 0 THEN (t + pp - 1) \div pp ELSE 0
        has_prev    == p > 1
        has_next    == p < total_pages
        start_page  == Max(1, p - 2)
        end_page    == Min(total_pages, start_page + 4)
    IN  [total |-> t, page |-> p, per_page |-> pp,
         total_pages |-> total_pages,
         has_prev |-> has_prev, has_next |-> has_next,
         page_range |-> IF total_pages > 0 THEN Range(start_page, end_page) ELSE <<>>]

calculate_pagination_floor(t, p, pp) ==
    LET total_pages == IF t > 0 THEN t \div pp ELSE 0
        has_prev    == p > 1
        has_next    == p < total_pages
        start_page0 == Max(1, p - 2)
        end_page    == Min(total_pages, start_page0 + 4)
        start_page  == IF end_page - start_page0 < 4
                       THEN Max(1, end_page - 4) ELSE start_page0
    IN  [total |-> t, page |-> p, per_page |-> pp,
         total_pages |-> total_pages,
         has_prev |-> has_prev, has_next |-> has_next,
         page_range |-> IF total_pages > 0 THEN Range(start_page, end_page) ELSE <<>>]

calculate_pagination_offcentre(t, p, pp) ==
    LET total_pages == IF t > 0 THEN (t + pp - 1) \div pp ELSE 0
        has_prev    == p > 1
        has_next    == p < total_pages
        start_page0 == Max(1, p - 1)
        end_page    == Min(total_pages, start_page0 + 4)
        start_page  == IF end_page - start_page0 < 4
                       THEN Max(1, end_page - 4) ELSE start_page0
    IN  [total |-> t, page |-> p, per_page |-> pp,
         total_pages |-> total_pages,
         has_prev |-> has_prev, has_next |-> has_next,
         page_range |-> IF total_pages > 0 THEN Range(start_page, end_page) ELSE <<>>]

calculate_pagination(t, p, pp) ==
    LET total_pages == IF t > 0 THEN (t + pp - 1) \div pp ELSE 0
        has_prev    == p > 1
        has_next    == p < total_pages
        start_page0 == Max(1, p - 2)
        end_page    == Min(total_pages, start_page0 + 4)
        start_page  == IF end_page - start_page0 < 4
                       THEN Max(1, end_page - 4) ELSE start_page0
    IN  [total |-> t, page |-> p, per_page |-> pp,
         total_pages |-> total_pages,
         has_prev |-> has_prev, has_next |-> has_next,
         page_range |-> IF total_pages > 0 THEN Range(start_page, end_page) ELSE <<>>]

PageInit ==
    /\ total \in 0..MaxTotal
    /\ page \in 1..MaxPage
    /\ per_page \in 1..MaxPerPage
    /\ pagination = None

CalculatePagination ==
    /\ pagination = None
    /\ pagination' = calculate_pagination(total, page, per_page)
    /\ UNCHANGED <<total, page, per_page>>
    /\ UNCHANGED notPage

\* A further request for another page of the same listing.
NextPageRequest ==
    /\ pagination # None
    /\ \E p \in 1..MaxPage : page' = p
    /\ pagination' = None
    /\ UNCHANGED <<total, per_page>>
    /\ UNCHANGED notPage

(***************************************************************************)
(* CSRF validator: verify_csrf_token.                                      *)
(***************************************************************************)

\* Characters a cookie, header or form value can carry, as code points: two
\* ASCII letters and one non-ASCII letter (U+00E9).
CodePoints == {97, 98, 233}

MaxTokenLen == 2

\* str values of at most MaxTokenLen characters, the empty string included.
Strings == UNION { [1..n -> CodePoints] : n \in 0..MaxTokenLen }

\* Optional[str]
OptionalStrings == {None} \cup { [str |-> s] : s \in Strings }

\* Python's "not x" for an Optional[str]: true of None and of "".
Not(x) == x = None \/ x.str = <<>>

IsAscii(s) == \A i \in 1..Len(s) : s[i] < 128

\* secrets.compare_digest on two str arguments: a TypeError unless both are
\* ASCII-only, otherwise whether they are equal.
compare_digest(a, b) ==
    IF IsAscii(a.str) /\ IsAscii(b.str)
    THEN [ret |-> (a.str = b.str)]
    ELSE [raises |-> "TypeError"]

verify_csrf_token(cookie, form) ==
    IF Not(cookie) \/ Not(form) THEN [ret |-> FALSE]
    ELSE compare_digest(cookie, form)

CsrfInit ==
    /\ cookie_token \in OptionalStrings
    /\ form_token \in OptionalStrings
    /\ csrf_result = None
    /\ browser = None

VerifyCsrfToken ==
    /\ csrf_result = None
    /\ csrf_result' = verify_csrf_token(cookie_token, form_token)
    /\ UNCHANGED <<cookie_token, form_token, browser>>
    /\ UNCHANGED notCsrf

\* The client submits again, with another token in the form field or header.
Resubmit ==
    /\ csrf_result # None
    /\ \E f \in OptionalStrings : form_token' = f
    /\ csrf_result' = None
    /\ UNCHANGED <<cookie_token, browser>>
    /\ UNCHANGED notCsrf

(***************************************************************************)
(* Session identity resolver: AuthService.get_current_user.                *)
(***************************************************************************)

ALGORITHM == "HS256"

MaxTime == 2

Times == 1..MaxTime

\* A dict with no keys.
EmptyDict == [k \in {} |-> None]

\* The dicts that either lack key or map it to one of vals.
OptionalKey(key, vals) == {EmptyDict} \cup { key :> v : v \in vals }

\* Subjects a token can name: the ids of UserIds and "u9", an id of no row.
Subjects == UserIds \cup {"u9"}

\* JWT claim sets: sub, exp and aud are each present or missing.
Payloads ==
    { s @@ e @@ a : s \in OptionalKey("sub", Subjects \cup {""}),
                    e \in OptionalKey("exp", Times),
                    a \in OptionalKey("aud", {"authenticated", "anon"}) }

\* A well-formed JWT: the alg of its header, whether its signature verifies
\* under JWT_SECRET, and its claims.
JWTs == [alg : {ALGORITHM, "none"}, sig_ok : BOOLEAN, payload : Payloads]

\* Values of the access_token cookie: missing, empty, not a JWT, or a JWT.
AccessTokens == {None, [raw |-> ""], [raw |-> "garbage"]} \cup JWTs

\* Users tables: at most one row per id (id is the primary key).
UsersTables == { t \in SUBSET UserRows : \A r1, r2 \in t : r1.id = r2.id => r1 = r2 }

\* The store answers ("ok"), answers a single() query that matches no row
\* with empty data instead of an error ("ok_no_data"), or fails ("down").
StoreModes == {"ok", "ok_no_data", "down"}

\* jose.jwt.decode(token, JWT_SECRET, algorithms=[ALGORITHM],
\* audience="authenticated"): the claims, or a JWTError.
jwt_decode(t, clock) ==
    IF "raw" \in DOMAIN t THEN [raises |-> "JWTError"]
    ELSE IF t.alg # ALGORITHM THEN [raises |-> "JWTError"]
    ELSE IF ~t.sig_ok THEN [raises |-> "JWTError"]
    ELSE IF "exp" \in DOMAIN t.payload /\ clock > t.payload.exp
         THEN [raises |-> "JWTError"]
    ELSE IF "aud" \in DOMAIN t.payload /\ t.payload.aud # "authenticated"
         THEN [raises |-> "JWTError"]
    ELSE [ret |-> t.payload]

\* supabase.table("users").select("*").eq("id", user_id).single().execute()
select_user_single(table, user_id, mode) ==
    LET rows == { r \in table : r.id = user_id } IN
    IF mode = "down" THEN [raises |-> "Exception"]
    ELSE IF rows = {}
         THEN IF mode = "ok_no_data" THEN [data |-> None] ELSE [raises |-> "APIError"]
    ELSE [data |-> CHOOSE r \in rows : TRUE]

get_current_user_propagates(t, clock, table, mode) ==
    IF t = None \/ ("raw" \in DOMAIN t /\ t.raw = "") THEN [ret |-> None]
    ELSE LET decoded == jwt_decode(t, clock) IN
         IF "raises" \in DOMAIN decoded THEN decoded
         ELSE IF "sub" \notin DOMAIN decoded.ret \/ decoded.ret.sub = "" THEN [ret |-> None]
         ELSE LET user_response == select_user_single(table, decoded.ret.sub, mode) IN
              IF "raises" \in DOMAIN user_response THEN user_response
              ELSE IF user_response.data = None THEN [ret |-> None]
              ELSE [ret |-> user_response.data]

get_current_user(t, clock, table, mode) ==
    IF t = None \/ ("raw" \in DOMAIN t /\ t.raw = "") THEN [ret |-> None]
    ELSE LET decoded == jwt_decode(t, clock) IN
         IF "raises" \in DOMAIN decoded THEN [ret |-> None]
         ELSE IF "sub" \notin DOMAIN decoded.ret \/ decoded.ret.sub = "" THEN [ret |-> None]
         ELSE LET user_response == select_user_single(table, decoded.ret.sub, mode) IN
              IF "raises" \in DOMAIN user_response THEN [ret |-> None]
              ELSE IF user_response.data = None THEN [ret |-> None]
              ELSE [ret |-> user_response.data]

AuthInit ==
    /\ token \in AccessTokens
    /\ users \in UsersTables
    /\ now \in Times
    /\ store_mode \in StoreModes
    /\ current_user = None
    /\ required = None

GetCurrentUser ==
    /\ current_user = None
    /\ current_user' = get_current_user(token, now, users, store_mode)
    /\ UNCHANGED <<token, users, now, store_mode, required>>
    /\ UNCHANGED notAuth

\* Time passes between two requests that carry the same cookie.
Tick ==
    /\ current_user # None \/ required # None
    /\ now < MaxTime
    /\ now' = now + 1
    /\ current_user' = None
    /\ required' = None
    /\ UNCHANGED <<token, users, store_mode>>
    /\ UNCHANGED notAuth

(***************************************************************************)
(* The unsafe routes (POST, PUT, PATCH, DELETE) of app/routers.            *)
(*                                                                         *)
(* A request carries the csrf_token cookie, the X-CSRF-Token header, the   *)
(* csrf_token form field, the access_token cookie and whether its body or  *)
(* its other form fields validate.  A response records the status, the     *)
(* outcome of the handler's CSRF check, the service calls the handler      *)
(* made, in order, the cookies it set and deleted, and the redirect target.*)
(* A service call either returns (outcome 200) or raises an HTTPException  *)
(* with a status.                                                          *)
(***************************************************************************)

\* Handlers that take the token from the X-CSRF-Token header.
HeaderRoutes ==
    {"logout", "create_post", "update_post", "delete_post", "toggle_pin",
     "create_comment", "update_comment", "delete_comment",
     "create_board", "update_board", "delete_board", "update_user",
     "add_bookmark", "remove_bookmark"}

\* Handlers that take the token from the csrf_token form field.
FormRoutes ==
    {"login_form", "signup_form",
     "create_post_form", "update_post_form", "delete_post_form",
     "create_comment_form", "update_comment_form", "delete_comment_form",
     "create_board_form", "update_board_form", "delete_board_form",
     "update_user_form", "toggle_bookmark_form"}

\* Every POST, PUT, PATCH and DELETE route of the application.
UnsafeRoutes == {"signup", "login"} \cup HeaderRoutes \cup FormRoutes

\* Token values a request carries in a cookie, a header or a form field.
RequestTokens == {None} \cup { [str |-> t] : t \in { u \in Strings : Len(u) <= 1 } }

\* The users table while requests are served: a member and an admin.
HttpUsers == {[id |-> "u1", is_admin |-> FALSE], [id |-> "u2", is_admin |-> TRUE]}

\* A JWT the identity provider issued to user_id.
SessionToken(user_id) ==
    [alg |-> ALGORITHM, sig_ok |-> TRUE,
     payload |-> [sub |-> user_id, aud |-> "authenticated"]]

\* access_token cookies of requests: none, the member's, the admin's, and
\* the admin's with a forged signature.
RequestSessions ==
    {None, SessionToken("u1"), SessionToken("u2"),
     [SessionToken("u2") EXCEPT !.sig_ok = FALSE]}

Requests ==
    [route : UnsafeRoutes, csrf_cookie : RequestTokens, csrf_header : RequestTokens,
     csrf_form : RequestTokens, access_token : RequestSessions, body_ok : BOOLEAN]

\* Outcomes of a service call: 200 when it returns, else the status of the
\* HTTPException it raises.
ServiceOutcomes == {200, 400, 404}

\* Service calls that write to the store or to the identity provider.
MutatingServices ==
    {"AuthService.signup", "AuthService.login", "AuthService.logout",
     "AuthService.update_user",
     "PostService.create_post", "PostService.update_post",
     "PostService.delete_post", "PostService.toggle_pin",
     "CommentService.create_comment", "CommentService.update_comment",
     "CommentService.delete_comment",
     "BoardService.create_board", "BoardService.update_board",
     "BoardService.delete_board",
     "BookmarkService.add_bookmark", "BookmarkService.remove_bookmark"}

Response(status, csrf, calls, set_cookies, delete_cookies, redirect) ==
    [route |-> request.route, status |-> status, csrf |-> csrf, calls |-> calls,
     set_cookies |-> set_cookies, delete_cookies |-> delete_cookies,
     redirect |-> redirect]

\* "if not verify_csrf_token(csrf_cookie, submitted)": the check passes,
\* fails, or verify_csrf_token raises.
CsrfCheck(submitted) ==
    LET verified == verify_csrf_token(request.csrf_cookie, submitted) IN
    IF "raises" \in DOMAIN verified THEN "error"
    ELSE IF verified.ret THEN "pass" ELSE "fail"

\* The response to a request whose CSRF check did not pass: 403, or 500
\* from global_exception_handler when verify_csrf_token raised.
CsrfRejected(csrf) ==
    Response(IF csrf = "error" THEN 500 ELSE 403, csrf, <<>>, {}, {}, "")

\* FastAPI's 422 for a request whose body or required form fields do not
\* validate; the handler does not run.
Unprocessable == Response(422, "not_run", <<>>, {}, {}, "")

\* Whether FastAPI takes the csrf_token form field for missing: a field that
\* is not sent is, a field sent empty is or is not, by FastAPI version.
FormFieldMissing(v) ==
    IF v = None THEN {TRUE} ELSE IF v.str = <<>> THEN {TRUE, FALSE} ELSE {FALSE}

\* request.cookies.get("access_token") of the request being served.
AccessToken == IF request = None THEN token ELSE request.access_token

CurrentUser == get_current_user(AccessToken, now, users, store_mode).ret

require_auth_anonymous ==
    [ret |-> CurrentUser]

require_auth ==
    IF CurrentUser = None THEN [raises |-> 401] ELSE [ret |-> CurrentUser]

require_admin_any_user == require_auth

require_admin ==
    IF "raises" \in DOMAIN require_auth THEN require_auth
    ELSE IF ~Get(require_auth.ret, "is_admin", FALSE) THEN [raises |-> 403]
    ELSE require_auth

\* The calls names made in order until one raises: the calls made and the
\* status of the first HTTPException, 200 when every call returns.
RunServices(names, outs) ==
    LET failing == { k \in 1..Len(names) : outs[k] # 200 } IN
    IF failing = {} THEN [status |-> 200, calls |-> names]
    ELSE LET k == CHOOSE i \in failing : \A j \in failing : i <= j IN
         [status |-> outs[k], calls |-> SubSeq(names, 1, k)]

\* A dependency calls AuthService.require_auth on the request.
RequireAuth ==
    /\ request = None /\ required = None
    /\ required' = [op |-> "require_auth", out |-> require_auth]
    /\ UNCHANGED <<token, users, now, store_mode, current_user>>
    /\ UNCHANGED notAuth

\* A dependency calls AuthService.require_admin on the request.
RequireAdmin ==
    /\ request = None /\ required = None
    /\ required' = [op |-> "require_admin", out |-> require_admin]
    /\ UNCHANGED <<token, users, now, store_mode, current_user>>
    /\ UNCHANGED notAuth

\* A request to route is waiting for its handler.
Pending(route) ==
    /\ request # None /\ response = None
    /\ request.route = route

\* The handler answers the pending request with r.
Reply(r) ==
    /\ response' = r
    /\ UNCHANGED request
    /\ UNCHANGED notHttp

HeaderHandler_any_channel(needs_body, auth, names, outs) ==
    IF needs_body /\ ~request.body_ok THEN Unprocessable
    ELSE LET csrf == IF CsrfCheck(request.csrf_header) = "pass"
                     THEN "pass" ELSE CsrfCheck(request.csrf_form) IN
         IF csrf # "pass" THEN CsrfRejected(csrf)
         ELSE IF "raises" \in DOMAIN auth
              THEN Response(auth.raises, csrf, <<>>, {}, {}, "")
         ELSE LET run == RunServices(names, outs) IN
              Response(run.status, csrf, run.calls, {}, {}, "")

\* The JSON handlers that check the X-CSRF-Token header, then authenticate
\* with auth (require_auth or require_admin), then make the calls names.
HeaderHandler(needs_body, auth, names, outs) ==
    IF needs_body /\ ~request.body_ok THEN Unprocessable
    ELSE LET csrf == CsrfCheck(request.csrf_header) IN
         IF csrf # "pass" THEN CsrfRejected(csrf)
         ELSE IF "raises" \in DOMAIN auth
              THEN Response(auth.raises, csrf, <<>>, {}, {}, "")
         ELSE LET run == RunServices(names, outs) IN
              Response(run.status, csrf, run.calls, {}, {}, "")

\* The form handlers that check the csrf_token form field, then resolve the
\* identity, answering anonymous (a status and a redirect target) when there
\* is none, or authenticate with require_admin, then make the calls names.
FormHandler(missing, needs_body, auth, anonymous, names, outs, done) ==
    IF missing \/ (needs_body /\ ~request.body_ok) THEN Unprocessable
    ELSE LET csrf == CsrfCheck(request.csrf_form) IN
         IF csrf # "pass" THEN CsrfRejected(csrf)
         ELSE IF "raises" \in DOMAIN auth
              THEN IF auth.raises = 401
                   THEN Response(anonymous.status, csrf, <<>>, {}, {}, anonymous.redirect)
                   ELSE Response(auth.raises, csrf, <<>>, {}, {}, "")
         ELSE LET run == RunServices(names, outs) IN
              IF run.status = 200
              THEN Response(done.status, csrf, run.calls, {}, {}, done.redirect)
              ELSE Response(run.status, csrf, run.calls, {}, {}, "")

ToLogin == [status |-> 303, redirect |-> "/auth/login"]

NotAuthenticated == [status |-> 401, redirect |-> ""]

Redirect(url) == [status |-> 303, redirect |-> url]

Fragment == [status |-> 200, redirect |-> ""]

Outcomes(n) == [1..n -> ServiceOutcomes]

(***************************************************************************)
(* app/routers/auth.py                                                     *)
(***************************************************************************)

\* A client sends a request to one of the unsafe routes.
ClientRequest ==
    /\ request = None /\ response = None
    /\ request' \in Requests
    /\ UNCHANGED response
    /\ UNCHANGED notHttp

\* The response has been sent; the server waits for the next request.
ResponseSent ==
    /\ response # None
    /\ request' = None
    /\ response' = None
    /\ UNCHANGED notHttp

\* POST /auth/signup (JSON): no CSRF check; AuthService.signup, then the
\* access_token cookie when the provider opened a session.
signup ==
    /\ Pending("signup")
    /\ \E out \in ServiceOutcomes, session \in BOOLEAN :
        Reply(IF ~request.body_ok THEN Unprocessable
            ELSE IF out # 200
                 THEN Response(out, "unchecked", <<"AuthService.signup">>, {}, {}, "")
            ELSE Response(200, "unchecked", <<"AuthService.signup">>,
                          IF session THEN {"access_token"} ELSE {}, {}, ""))

\* POST /auth/login (JSON): no CSRF check; AuthService.login, then the
\* access_token and refresh_token cookies.
login ==
    /\ Pending("login")
    /\ \E out \in ServiceOutcomes :
        Reply(IF ~request.body_ok THEN Unprocessable
            ELSE IF out # 200
                 THEN Response(out, "unchecked", <<"AuthService.login">>, {}, {}, "")
            ELSE Response(200, "unchecked", <<"AuthService.login">>,
                          {"access_token", "refresh_token"}, {}, ""))

\* POST /auth/logout: header CSRF check, AuthService.logout (which does not
\* raise), then the three cookies are deleted.
logout ==
    /\ Pending("logout")
    /\ Reply(LET csrf == CsrfCheck(request.csrf_header) IN
        IF csrf # "pass" THEN CsrfRejected(csrf)
        ELSE Response(200, csrf, <<"AuthService.logout">>, {},
                      {"access_token", "refresh_token", "csrf_token"}, ""))

\* POST /auth/login/form: form CSRF check (403 page), AuthService.login, then
\* a redirect with the session cookies; on HTTPException the login page with
\* status 400 and a new csrf_token cookie.
login_form ==
    /\ Pending("login_form")
    /\ \E out \in ServiceOutcomes, missing \in FormFieldMissing(request.csrf_form) :
        Reply(IF missing \/ ~request.body_ok THEN Unprocessable
            ELSE LET csrf == CsrfCheck(request.csrf_form) IN
                 IF csrf # "pass" THEN CsrfRejected(csrf)
                 ELSE IF out # 200
                      THEN Response(400, csrf, <<"AuthService.login">>, {"csrf_token"}, {}, "")
                 ELSE Response(303, csrf, <<"AuthService.login">>,
                               {"access_token", "refresh_token"}, {}, "/"))

\* POST /auth/signup/form: form CSRF check (403 page), the password policy,
\* AuthService.signup, then a redirect with the access_token cookie when the
\* provider opened a session; on HTTPException the signup page with status
\* 400 and a new csrf_token cookie.
signup_form ==
    /\ Pending("signup_form")
    /\ \E out \in ServiceOutcomes, session \in BOOLEAN, password_ok \in BOOLEAN,
       missing \in FormFieldMissing(request.csrf_form) :
        Reply(IF missing \/ ~request.body_ok THEN Unprocessable
            ELSE LET csrf == CsrfCheck(request.csrf_form) IN
                 IF csrf # "pass" THEN CsrfRejected(csrf)
                 ELSE IF ~password_ok
                      THEN Response(400, csrf, <<>>, {"csrf_token"}, {}, "")
                 ELSE IF out # 200
                      THEN Response(400, csrf, <<"AuthService.signup">>, {"csrf_token"}, {}, "")
                 ELSE Response(303, csrf, <<"AuthService.signup">>,
                               IF session THEN {"access_token"} ELSE {}, {}, "/"))

(***************************************************************************)
(* app/routers/posts.py                                                    *)
(***************************************************************************)

\* POST /boards/{board_id}/posts (JSON)
create_post ==
    /\ Pending("create_post")
    /\ \E outs \in Outcomes(1) :
        Reply(HeaderHandler(TRUE, require_auth, <<"PostService.create_post">>, outs))

\* PUT /posts/{post_id} (JSON)
update_post ==
    /\ Pending("update_post")
    /\ \E outs \in Outcomes(1) :
        Reply(HeaderHandler(TRUE, require_auth, <<"PostService.update_post">>, outs))

\* DELETE /posts/{post_id}: the post is read for its board_id, then deleted.
delete_post ==
    /\ Pending("delete_post")
    /\ \E outs \in Outcomes(2) :
        Reply(HeaderHandler(FALSE, require_auth, <<"PostService.get_post_by_id", "PostService.delete_post">>, outs))

\* PATCH /posts/{post_id}/pin
toggle_pin ==
    /\ Pending("toggle_pin")
    /\ \E outs \in Outcomes(1) :
        Reply(HeaderHandler(FALSE, require_admin, <<"PostService.toggle_pin">>, outs))

\* POST /boards/{board_id}/posts/form: form CSRF check, redirect to the login
\* page when anonymous, PostService.create_post, then a redirect to the post;
\* on HTTPException the board is read and the form is rendered again with
\* status 400 and a new csrf_token cookie.
create_post_form ==
    /\ Pending("create_post_form")
    /\ \E out \in ServiceOutcomes, missing \in FormFieldMissing(request.csrf_form) :
        Reply(IF missing \/ ~request.body_ok THEN Unprocessable
            ELSE LET csrf == CsrfCheck(request.csrf_form) IN
                 IF csrf # "pass" THEN CsrfRejected(csrf)
                 ELSE IF CurrentUser = None
                      THEN Response(303, csrf, <<>>, {}, {}, "/auth/login")
                 ELSE IF out # 200
                      THEN Response(400, csrf,
                                    <<"PostService.create_post", "BoardService.get_board_by_id">>,
                                    {"csrf_token"}, {}, "")
                 ELSE Response(303, csrf, <<"PostService.create_post">>, {}, {}, "/posts/{id}"))

\* POST /posts/{post_id}/form: as create_post_form, with
\* PostService.update_post; on HTTPException the post is read again, and an
\* HTTPException of that read propagates.
update_post_form ==
    /\ Pending("update_post_form")
    /\ \E out \in ServiceOutcomes, reread \in ServiceOutcomes,
       missing \in FormFieldMissing(request.csrf_form) :
        Reply(IF missing \/ ~request.body_ok THEN Unprocessable
            ELSE LET csrf == CsrfCheck(request.csrf_form) IN
                 IF csrf # "pass" THEN CsrfRejected(csrf)
                 ELSE IF CurrentUser = None
                      THEN Response(303, csrf, <<>>, {}, {}, "/auth/login")
                 ELSE IF out = 200
                      THEN Response(303, csrf, <<"PostService.update_post">>, {}, {}, "/posts/{id}")
                 ELSE IF reread # 200
                      THEN Response(reread, csrf,
                                    <<"PostService.update_post", "PostService.get_post_by_id">>,
                                    {}, {}, "")
                 ELSE Response(400, csrf,
                               <<"PostService.update_post", "PostService.get_post_by_id">>,
                               {"csrf_token"}, {}, ""))

\* POST /posts/{post_id}/delete
delete_post_form ==
    /\ Pending("delete_post_form")
    /\ \E outs \in Outcomes(2), missing \in FormFieldMissing(request.csrf_form) :
        Reply(FormHandler(missing, FALSE, require_auth, ToLogin, <<"PostService.get_post_by_id", "PostService.delete_post">>, outs, Redirect("/boards/{id}")))

(***************************************************************************)
(* app/routers/comments.py                                                 *)
(***************************************************************************)

\* POST /posts/{post_id}/comments (JSON)
create_comment ==
    /\ Pending("create_comment")
    /\ \E outs \in Outcomes(1) :
        Reply(HeaderHandler(TRUE, require_auth, <<"CommentService.create_comment">>, outs))

\* PUT /comments/{comment_id} (JSON)
update_comment ==
    /\ Pending("update_comment")
    /\ \E outs \in Outcomes(1) :
        Reply(HeaderHandler(TRUE, require_auth, <<"CommentService.update_comment">>, outs))

\* DELETE /comments/{comment_id}
delete_comment ==
    /\ Pending("delete_comment")
    /\ \E outs \in Outcomes(1) :
        Reply(HeaderHandler(FALSE, require_auth, <<"CommentService.delete_comment">>, outs))

\* POST /posts/{post_id}/comments/form
create_comment_form ==
    /\ Pending("create_comment_form")
    /\ \E outs \in Outcomes(1), missing \in FormFieldMissing(request.csrf_form) :
        Reply(FormHandler(missing, TRUE, require_auth, NotAuthenticated, <<"CommentService.create_comment">>, outs, Fragment))

\* POST /comments/{comment_id}/form
update_comment_form ==
    /\ Pending("update_comment_form")
    /\ \E outs \in Outcomes(1), missing \in FormFieldMissing(request.csrf_form) :
        Reply(FormHandler(missing, TRUE, require_auth, NotAuthenticated, <<"CommentService.update_comment">>, outs, Fragment))

\* POST /comments/{comment_id}/delete
delete_comment_form ==
    /\ Pending("delete_comment_form")
    /\ \E outs \in Outcomes(1), missing \in FormFieldMissing(request.csrf_form) :
        Reply(FormHandler(missing, FALSE, require_auth, NotAuthenticated, <<"CommentService.delete_comment">>, outs, Fragment))

(***************************************************************************)
(* app/routers/admin.py                                                    *)
(***************************************************************************)

\* POST /admin/boards (JSON)
create_board ==
    /\ Pending("create_board")
    /\ \E outs \in Outcomes(1) :
        Reply(HeaderHandler(TRUE, require_admin, <<"BoardService.create_board">>, outs))

\* PUT /admin/boards/{board_id} (JSON)
update_board ==
    /\ Pending("update_board")
    /\ \E outs \in Outcomes(1) :
        Reply(HeaderHandler(TRUE, require_admin, <<"BoardService.update_board">>, outs))

\* DELETE /admin/boards/{board_id}
delete_board ==
    /\ Pending("delete_board")
    /\ \E outs \in Outcomes(1) :
        Reply(HeaderHandler(FALSE, require_admin, <<"BoardService.delete_board">>, outs))

\* PUT /admin/users/{user_id} (JSON): header CSRF check, require_admin, 400
\* when the admin changes their own admin flag, 404 when get_user_by_id
\* finds no user, then AuthService.update_user (which does not raise).
update_user ==
    /\ Pending("update_user")
    /\ \E own_flag \in BOOLEAN, found \in BOOLEAN :
        Reply(IF ~request.body_ok THEN Unprocessable
            ELSE LET csrf == CsrfCheck(request.csrf_header) IN
                 IF csrf # "pass" THEN CsrfRejected(csrf)
                 ELSE IF "raises" \in DOMAIN require_admin
                      THEN Response(require_admin.raises, csrf, <<>>, {}, {}, "")
                 ELSE IF own_flag THEN Response(400, csrf, <<>>, {}, {}, "")
                 ELSE IF ~found
                      THEN Response(404, csrf, <<"AuthService.get_user_by_id">>, {}, {}, "")
                 ELSE Response(200, csrf,
                               <<"AuthService.get_user_by_id", "AuthService.update_user">>,
                               {}, {}, ""))

\* POST /admin/boards/form
create_board_form ==
    /\ Pending("create_board_form")
    /\ \E outs \in Outcomes(1), missing \in FormFieldMissing(request.csrf_form) :
        Reply(FormHandler(missing, TRUE, require_admin, NotAuthenticated, <<"BoardService.create_board">>, outs, Redirect("/admin/boards")))

\* POST /admin/boards/{board_id}/form
update_board_form ==
    /\ Pending("update_board_form")
    /\ \E outs \in Outcomes(1), missing \in FormFieldMissing(request.csrf_form) :
        Reply(FormHandler(missing, TRUE, require_admin, NotAuthenticated, <<"BoardService.update_board">>, outs, Redirect("/admin/boards")))

\* POST /admin/boards/{board_id}/delete
delete_board_form ==
    /\ Pending("delete_board_form")
    /\ \E outs \in Outcomes(1), missing \in FormFieldMissing(request.csrf_form) :
        Reply(FormHandler(missing, FALSE, require_admin, NotAuthenticated, <<"BoardService.delete_board">>, outs, Redirect("/admin/boards")))

\* POST /admin/users/{user_id}/form: form CSRF check, require_admin, 400 when
\* the target is the admin, then AuthService.update_user and a redirect.
update_user_form ==
    /\ Pending("update_user_form")
    /\ \E own \in BOOLEAN, missing \in FormFieldMissing(request.csrf_form) :
        Reply(IF missing \/ ~request.body_ok THEN Unprocessable
            ELSE LET csrf == CsrfCheck(request.csrf_form) IN
                 IF csrf # "pass" THEN CsrfRejected(csrf)
                 ELSE IF "raises" \in DOMAIN require_admin
                      THEN Response(require_admin.raises, csrf, <<>>, {}, {}, "")
                 ELSE IF own THEN Response(400, csrf, <<>>, {}, {}, "")
                 ELSE Response(303, csrf, <<"AuthService.update_user">>, {}, {}, "/admin/users"))

(***************************************************************************)
(* app/routers/profile.py                                                  *)
(***************************************************************************)

\* POST /bookmarks/{post_id}
add_bookmark ==
    /\ Pending("add_bookmark")
    /\ \E outs \in Outcomes(1) :
        Reply(HeaderHandler(FALSE, require_auth, <<"BookmarkService.add_bookmark">>, outs))

\* DELETE /bookmarks/{post_id}
remove_bookmark ==
    /\ Pending("remove_bookmark")
    /\ \E outs \in Outcomes(1) :
        Reply(HeaderHandler(FALSE, require_auth, <<"BookmarkService.remove_bookmark">>, outs))

\* POST /bookmarks/{post_id}/form: form CSRF check, 401 when anonymous,
\* is_bookmarked (which does not raise), then remove_bookmark or
\* add_bookmark.
toggle_bookmark_form ==
    /\ Pending("toggle_bookmark_form")
    /\ \E is_bookmarked \in BOOLEAN, out \in ServiceOutcomes,
       missing \in FormFieldMissing(request.csrf_form) :
        Reply(IF missing THEN Unprocessable
            ELSE LET csrf == CsrfCheck(request.csrf_form) IN
                 IF csrf # "pass" THEN CsrfRejected(csrf)
                 ELSE IF CurrentUser = None THEN Response(401, csrf, <<>>, {}, {}, "")
                 ELSE Response(out, csrf,
                               <<"BookmarkService.is_bookmarked",
                                 IF is_bookmarked THEN "BookmarkService.remove_bookmark"
                                 ELSE "BookmarkService.add_bookmark">>,
                               {}, {}, ""))

HttpInit ==
    /\ request = None
    /\ response = None
    /\ token = None
    /\ users = HttpUsers
    /\ now = 1
    /\ store_mode = "ok"
    /\ current_user = None
    /\ required = None

(***************************************************************************)
(* Sanitizer: sanitize_html and sanitize_text of app/services/utils.py,    *)
(* both bleach.clean with strip=True.  An HTML text is [html |-> s], s the *)
(* sequence of the lexical items html5lib's tokenizer splits the text      *)
(* into: a start tag, an end tag, a character, a character reference.      *)
(***************************************************************************)

ALLOWED_TAGS ==
    {"p", "br", "strong", "em", "u", "s", "a", "img",
     "ul", "ol", "li", "blockquote", "pre", "code",
     "h1", "h2", "h3", "h4", "h5", "h6", "span", "div"}

\* Lexical items of the texts considered: the tags of pre (allowed by
\* ALLOWED_TAGS) and of section (not allowed), the characters x, newline
\* and a less-than sign that opens no tag, and the reference &lt;.
StartTags == {"<pre>", "<section>"}

EndTags == {"</pre>", "</section>"}

Items == StartTags \cup EndTags \cup {"x", "\n", "<", "&lt;"}

TagName(item) ==
    CASE item \in {"<pre>", "</pre>"} -> "pre"
      [] item \in {"<section>", "</section>"} -> "section"
      [] OTHER -> ""

MaxItems == 5

RECURSIVE Balanced(_, _)
\* Every end tag of s closes the innermost open element and open, the
\* elements left open before s, are all closed at its end: texts on which
\* html5lib's tree builder inserts and moves no element.
Balanced(s, open) ==
    IF s = <<>> THEN open = <<>>
    ELSE IF Head(s) \in StartTags
         THEN Balanced(Tail(s), <<TagName(Head(s))>> \o open)
    ELSE IF Head(s) \in EndTags
         THEN /\ open # <<>>
              /\ Head(open) = TagName(Head(s))
              /\ Balanced(Tail(s), Tail(open))
    ELSE Balanced(Tail(s), open)

HtmlTexts ==
    { [html |-> s] : s \in { t \in UNION { [1..n -> Items] : n \in 0..MaxItems } :
                              Balanced(t, <<>>) } }

OptionalHtmlTexts == {None} \cup HtmlTexts

\* html5lib's tree construction: a newline that directly follows the start
\* tag of pre is dropped (the first character of a pre element's text only).
ParseFragment(s) ==
    LET kept == { i \in 1..Len(s) : ~(s[i] = "\n" /\ i > 1 /\ s[i - 1] = "<pre>") }
        Nth(k) == CHOOSE i \in kept : Cardinality({ j \in kept : j < i }) = k - 1
    IN [k \in 1..Cardinality(kept) |-> s[Nth(k)]]

\* BleachSanitizerFilter with strip=True: the tags of an element that is not
\* in tags are removed, what the element holds is kept.
RECURSIVE StripTags(_, _)
StripTags(s, tags) ==
    IF s = <<>> THEN <<>>
    ELSE IF TagName(Head(s)) # "" /\ TagName(Head(s)) \notin tags
         THEN StripTags(Tail(s), tags)
    ELSE <<Head(s)>> \o StripTags(Tail(s), tags)

\* The serializer: a less-than sign in text is written as &lt;.
Serialize(s) == [i \in 1..Len(s) |-> IF s[i] = "<" THEN "&lt;" ELSE s[i]]

\* bleach.clean(text, tags=tags, strip=True)
bleach_clean(text, tags) ==
    [html |-> Serialize(StripTags(ParseFragment(text.html), tags))]

sanitize_html(c) ==
    IF c = None \/ c.html = <<>> THEN c
    ELSE bleach_clean(c, ALLOWED_TAGS)

sanitize_text(text) ==
    IF text = None \/ text.html = <<>> THEN text
    ELSE bleach_clean(text, {})

SanInit ==
    /\ content \in OptionalHtmlTexts
    /\ sanitized = None

SanitizeHtml ==
    /\ sanitized = None
    /\ sanitized' = [op |-> "sanitize_html", once |-> sanitize_html(content),
                     twice |-> sanitize_html(sanitize_html(content))]
    /\ UNCHANGED content
    /\ UNCHANGED notSan

SanitizeText ==
    /\ sanitized = None
    /\ sanitized' = [op |-> "sanitize_text", once |-> sanitize_text(content),
                     twice |-> sanitize_text(sanitize_text(content))]
    /\ UNCHANGED content
    /\ UNCHANGED notSan

\* The stored, sanitized text comes back as the content of the next edit.
Resubmit_sanitized ==
    /\ sanitized # None /\ sanitized.once # content
    /\ content' = sanitized.once
    /\ sanitized' = None
    /\ UNCHANGED notSan

(***************************************************************************)
(* The service layer over the external store (app/services/comment.py,     *)
(* board.py, bookmark.py, post.py).  A service call is made by a worker    *)
(* and proceeds one store call (one ...execute()) at a step; the calls of  *)
(* different workers interleave between store calls.  A call in progress   *)
(* is the record                                                           *)
(*   [op, args, pc, local, out, writes]                                    *)
(* pc names the store call made next ("done" once the method has returned  *)
(* or raised), local holds the method's local variables, out is the        *)
(* outcome ([ret |-> v] or [raises |-> HTTP status]), writes lists the     *)
(* writes the call has made to the store.                                  *)
(***************************************************************************)

Workers == {"w1", "w2"}

PostIds == {"p1", "p2"}

\* ....single().execute() over the rows a query selects: the row, an
\* APIError when there is none (or, by client version, no data).
single(rows, mode) ==
    IF rows = {}
    THEN IF mode = "ok_no_data" THEN [data |-> None] ELSE [raises |-> "APIError"]
    ELSE [data |-> CHOOSE r \in rows : TRUE]

\* The store answers every call of the service layer; users are the member
\* and the admin.
StoreEnvironment ==
    /\ token = None /\ users = HttpUsers /\ now = 1
    /\ store_mode \in {"ok", "ok_no_data"}
    /\ current_user = None /\ required = None

\* The workers serving requests in the specification at hand.
Serving == DOMAIN service_calls

\* Worker w is inside a call of op and has not finished it.
Running(w, op) ==
    /\ service_calls[w] # None
    /\ service_calls[w].op = op
    /\ service_calls[w].pc # "done"

\* Worker w starts the call of op with args; its first store call is pc.
Invoke(w, op, args, pc) ==
    /\ service_calls[w] = None
    /\ service_calls' = [service_calls EXCEPT ![w] =
           [op |-> op, args |-> args, pc |-> pc, local |-> None,
            out |-> None, writes |-> <<>>]]

\* raise HTTPException(status_code=status)
Raise(w, status) ==
    service_calls' = [service_calls EXCEPT ![w] =
        [@ EXCEPT !.pc = "done", !.out = [raises |-> status]]]

\* The method goes on to the store call pc with the local variables local.
Goto(w, pc, local) ==
    service_calls' = [service_calls EXCEPT ![w] =
        [@ EXCEPT !.pc = pc, !.local = local]]

\* The method makes its write and returns v.
Return(w, v, write) ==
    service_calls' = [service_calls EXCEPT ![w] =
        [@ EXCEPT !.pc = "done", !.out = [ret |-> v],
                  !.writes = Append(@, write)]]

\* The caller has taken the outcome of worker w's call.
CallReturns ==
    \E w \in Serving :
        /\ service_calls[w] # None /\ service_calls[w].pc = "done"
        /\ service_calls' = [service_calls EXCEPT ![w] = None]
        /\ UNCHANGED <<posts, comments, boards, bookmarks>>
        /\ UNCHANGED notStore

NotAuthorOrAdmin_never(row, caller) == FALSE

\* "if X['user_id'] != user['id'] and not user.get('is_admin', False)"
NotAuthorOrAdmin(row, caller) ==
    row.user_id # caller.id /\ ~Get(caller, "is_admin", FALSE)

(***************************************************************************)
(* app/services/comment.py                                                 *)
(***************************************************************************)

MaxComments == 3

CommentIds == 1..MaxComments

\* parent_id: Optional[str], None or the id of a comment.
OptionalCommentIds == {None} \cup { [id |-> n] : n \in CommentIds }

\* The comment text submitted: "<section>x</section>".
Contents == {[html |-> <<"<section>", "x", "</section>">>]}

\* The active rows of table whose id is id.
ActiveById(table, id) == { r \in table : r.id = id /\ r.is_active }

CommentArgs ==
    [post_id : PostIds, user : HttpUsers, content : Contents,
     parent_id : OptionalCommentIds]
    \cup [comment_id : CommentIds, user : HttpUsers, content : Contents]
    \cup [comment_id : CommentIds, user : HttpUsers]

create_comment_parent_any(parent_response) ==
    IF "raises" \in DOMAIN parent_response THEN 500
    ELSE IF parent_response.data = None THEN 404
    ELSE 200

\* create_comment, lines 86-101: what the parent lookup leads to, 200 when
\* the method goes on to insert.
create_comment_parent(parent_response) ==
    IF "raises" \in DOMAIN parent_response THEN 500
    ELSE IF parent_response.data = None THEN 404
    ELSE IF parent_response.data.parent_id # None THEN 400
    ELSE 200

\* A router calls CommentService.create_comment, update_comment or
\* delete_comment.
CommentCall ==
    \E w \in Serving, a \in CommentArgs :
        /\ \/ /\ "post_id" \in DOMAIN a
              /\ Invoke(w, "create_comment", a, "select_post")
           \/ /\ "comment_id" \in DOMAIN a /\ "content" \in DOMAIN a
              /\ Invoke(w, "update_comment", a, "select_comment")
           \/ /\ "comment_id" \in DOMAIN a /\ "content" \notin DOMAIN a
              /\ Invoke(w, "delete_comment", a, "select_comment")
        /\ UNCHANGED <<posts, comments, boards, bookmarks>>
        /\ UNCHANGED notStore

CommentService_create_comment ==
    \E w \in Serving :
        /\ Running(w, "create_comment")
        /\ LET c == service_calls[w] IN
           \/ /\ c.pc = "select_post"
              /\ LET post_response == single(ActiveById(posts, c.args.post_id), store_mode) IN
                 IF "raises" \in DOMAIN post_response THEN Raise(w, 500)
                 ELSE IF post_response.data = None THEN Raise(w, 404)
                 ELSE IF c.args.parent_id # None THEN Goto(w, "select_parent", None)
                 ELSE Goto(w, "insert", None)
              /\ UNCHANGED comments
           \/ /\ c.pc = "select_parent"
              /\ LET parent_response ==
                         single(ActiveById(comments, c.args.parent_id.id), store_mode)
                     status == create_comment_parent(parent_response) IN
                 IF status # 200 THEN Raise(w, status)
                 ELSE Goto(w, "insert", None)
              /\ UNCHANGED comments
           \/ /\ c.pc = "insert"
              /\ Cardinality(comments) < MaxComments
              /\ LET comment ==
                         [id |-> Cardinality(comments) + 1,
                          post_id |-> c.args.post_id,
                          user_id |-> c.args.user.id,
                          parent_id |-> c.args.parent_id,
                          content |-> sanitize_text(c.args.content),
                          is_active |-> TRUE] IN
                 /\ comments' = comments \cup {comment}
                 /\ Return(w, comment.id, "insert comments")
        /\ UNCHANGED <<posts, boards, bookmarks>>
        /\ UNCHANGED notStore

CommentService_update_comment ==
    \E w \in Serving :
        /\ Running(w, "update_comment")
        /\ LET c == service_calls[w] IN
           \/ /\ c.pc = "select_comment"
              /\ LET comment_response ==
                         single(ActiveById(comments, c.args.comment_id), store_mode) IN
                 IF "raises" \in DOMAIN comment_response THEN Raise(w, 500)
                 ELSE IF comment_response.data = None THEN Raise(w, 404)
                 ELSE IF NotAuthorOrAdmin(comment_response.data, c.args.user)
                      THEN Raise(w, 403)
                 ELSE Goto(w, "update", None)
              /\ UNCHANGED comments
           \/ /\ c.pc = "update"
              /\ comments' =
                     { IF r.id = c.args.comment_id
                       THEN [r EXCEPT !.content = sanitize_text(c.args.content)]
                       ELSE r : r \in comments }
              /\ Return(w, c.args.comment_id, "update comments")
        /\ UNCHANGED <<posts, boards, bookmarks>>
        /\ UNCHANGED notStore

CommentService_delete_comment ==
    \E w \in Serving :
        /\ Running(w, "delete_comment")
        /\ LET c == service_calls[w] IN
           \/ /\ c.pc = "select_comment"
              /\ LET comment_response ==
                         single(ActiveById(comments, c.args.comment_id), store_mode) IN
                 IF "raises" \in DOMAIN comment_response THEN Raise(w, 500)
                 ELSE IF comment_response.data = None THEN Raise(w, 404)
                 ELSE IF NotAuthorOrAdmin(comment_response.data, c.args.user)
                      THEN Raise(w, 403)
                 ELSE Goto(w, "update", None)
              /\ UNCHANGED comments
           \/ /\ c.pc = "update"
              /\ comments' =
                     { IF r.id = c.args.comment_id
                       THEN [r EXCEPT !.is_active = FALSE]
                       ELSE r : r \in comments }
              /\ Return(w, TRUE, "update comments")
        /\ UNCHANGED <<posts, boards, bookmarks>>
        /\ UNCHANGED notStore

\* Two posts by the member, the second soft-deleted; no comment yet; one
\* worker serves the requests.
CommentInit ==
    /\ posts = {[id |-> "p1", board_id |-> 1, user_id |-> "u1", is_active |-> TRUE],
                [id |-> "p2", board_id |-> 1, user_id |-> "u1", is_active |-> FALSE]}
    /\ comments = {}
    /\ boards = {}
    /\ bookmarks = <<>>
    /\ service_calls = [w \in {"w1"} |-> None]
    /\ StoreEnvironment

(***************************************************************************)
(* app/services/post.py                                                    *)
(***************************************************************************)

PostService_delete_post ==
    \E w \in Serving :
        /\ Running(w, "delete_post")
        /\ LET c == service_calls[w] IN
           \/ /\ c.pc = "select_post"
              /\ LET post_response == single(ActiveById(posts, c.args.post_id), store_mode) IN
                 IF "raises" \in DOMAIN post_response THEN Raise(w, 500)
                 ELSE IF post_response.data = None THEN Raise(w, 404)
                 ELSE IF NotAuthorOrAdmin(post_response.data, c.args.user)
                      THEN Raise(w, 403)
                 ELSE Goto(w, "update", None)
              /\ UNCHANGED posts
           \/ /\ c.pc = "update"
              /\ posts' = { IF r.id = c.args.post_id
                            THEN [r EXCEPT !.is_active = FALSE] ELSE r : r \in posts }
              /\ Return(w, TRUE, "update posts")
        /\ UNCHANGED <<comments, boards, bookmarks>>
        /\ UNCHANGED notStore

(***************************************************************************)
(* app/services/board.py and the admin routes that call it.                *)
(***************************************************************************)

MaxBoards == 3

BoardIds == 1..MaxBoards

Slugs == {"a", "b"}

\* Board names submitted: "x" and "<section>\n</section>".
Names == {[html |-> <<"x">>], [html |-> <<"<section>", "\n", "</section>">>]}

\* Request bodies of PUT /admin/boards/{board_id}: each key is sent or not.
UpdateBodies ==
    { slug @@ name @@ active :
        slug \in OptionalKey("slug", Slugs),
        name \in OptionalKey("name", Names),
        active \in OptionalKey("is_active", BOOLEAN) }

BoardUpdate_with_slug(body) == body

\* BoardUpdate(**body).model_dump() without the None values: the keys of
\* the body that are fields of BoardUpdate.
BoardUpdate(body) ==
    [k \in DOMAIN body \cap {"name", "is_active"} |-> body[k]]

\* BoardService.get_board_by_id: the active board, None when the lookup
\* raises.
get_board_by_id(board_id) ==
    LET board_response == single(ActiveById(boards, board_id), store_mode) IN
    IF "raises" \in DOMAIN board_response THEN None ELSE board_response.data

\* supabase.table(...).update(update_data).eq("id", id)
UpdateRow(table, id, update_data) ==
    { IF r.id = id
      THEN [k \in DOMAIN r |-> IF k \in DOMAIN update_data THEN update_data[k] ELSE r[k]]
      ELSE r : r \in table }

\* create_board, line 72: "if existing.data"
create_board_exists(existing) == existing # {}

delete_board_unchecked(active_posts) == FALSE

\* delete_board, line 146: "if posts.data"
delete_board_has_posts(active_posts) == active_posts # {}

\* An admin route calls BoardService.create_board, update_board or
\* delete_board, or a post route PostService.delete_post.
BoardCall ==
    \E w \in Serving :
        /\ \/ \E slug \in Slugs, name \in Names :
                  Invoke(w, "create_board", [slug |-> slug, name |-> name], "select_slug")
           \/ \E board_id \in BoardIds, body \in UpdateBodies :
                  Invoke(w, "update_board",
                         [board_id |-> board_id, update_data |-> BoardUpdate(body)],
                         "select_board")
           \/ \E board_id \in BoardIds :
                  Invoke(w, "delete_board", [board_id |-> board_id], "select_board")
           \/ \E post_id \in PostIds, caller \in HttpUsers :
                  Invoke(w, "delete_post", [post_id |-> post_id, user |-> caller],
                         "select_post")
        /\ UNCHANGED <<posts, comments, boards, bookmarks>>
        /\ UNCHANGED notStore

BoardService_create_board ==
    \E w \in Serving :
        /\ Running(w, "create_board")
        /\ LET c == service_calls[w] IN
           \/ /\ c.pc = "select_slug"
              /\ LET existing == { b \in boards : b.slug = c.args.slug } IN
                 IF create_board_exists(existing) THEN Raise(w, 400)
                 ELSE Goto(w, "insert", None)
              /\ UNCHANGED boards
           \/ /\ c.pc = "insert"
              /\ Cardinality(boards) < MaxBoards
              /\ LET row == [id |-> Cardinality(boards) + 1,
                             slug |-> c.args.slug,
                             name |-> sanitize_text(c.args.name),
                             is_active |-> TRUE] IN
                 /\ boards' = boards \cup {row}
                 /\ Return(w, row.id, "insert boards")
        /\ UNCHANGED <<posts, comments, bookmarks>>
        /\ UNCHANGED notStore

BoardService_update_board ==
    \E w \in Serving :
        /\ Running(w, "update_board")
        /\ LET c == service_calls[w] IN
           \/ /\ c.pc = "select_board"
              /\ IF get_board_by_id(c.args.board_id) = None THEN Raise(w, 404)
                 ELSE Goto(w, "update", None)
              /\ UNCHANGED boards
           \/ /\ c.pc = "update"
              /\ LET update_data ==
                         [k \in DOMAIN c.args.update_data |->
                             IF k = "name" THEN sanitize_text(c.args.update_data[k])
                             ELSE c.args.update_data[k]] IN
                 boards' = UpdateRow(boards, c.args.board_id, update_data)
              /\ Return(w, c.args.board_id, "update boards")
        /\ UNCHANGED <<posts, comments, bookmarks>>
        /\ UNCHANGED notStore

BoardService_delete_board ==
    \E w \in Serving :
        /\ Running(w, "delete_board")
        /\ LET c == service_calls[w] IN
           \/ /\ c.pc = "select_board"
              /\ LET existing == get_board_by_id(c.args.board_id) IN
                 IF existing = None THEN Raise(w, 404)
                 ELSE Goto(w, "select_posts", existing)
              /\ UNCHANGED boards
           \/ /\ c.pc = "select_posts"
              /\ LET active_posts ==
                         { p \in posts : p.board_id = c.args.board_id /\ p.is_active } IN
                 IF delete_board_has_posts(active_posts) THEN Raise(w, 400)
                 ELSE Goto(w, "update", c.local)
              /\ UNCHANGED boards
           \/ /\ c.pc = "update"
              /\ boards' = UpdateRow(boards, c.args.board_id, [is_active |-> FALSE])
              /\ Return(w, TRUE, "update boards")
        /\ UNCHANGED <<posts, comments, bookmarks>>
        /\ UNCHANGED notStore

\* One board with an active post and a soft-deleted one; one worker serves
\* the requests.
BoardInit ==
    /\ boards = {[id |-> 1, slug |-> "a", name |-> [html |-> <<"x">>], is_active |-> TRUE]}
    /\ posts = {[id |-> "p1", board_id |-> 1, user_id |-> "u1", is_active |-> TRUE],
                [id |-> "p2", board_id |-> 1, user_id |-> "u1", is_active |-> FALSE]}
    /\ comments = {}
    /\ bookmarks = <<>>
    /\ service_calls = [w \in {"w1"} |-> None]
    /\ StoreEnvironment

(***************************************************************************)
(* app/services/bookmark.py and the bookmark routes of                     *)
(* app/routers/profile.py.                                                 *)
(***************************************************************************)

MaxBookmarks == 4

BookmarkArgs == [user_id : UserIds, post_id : PostIds]

\* The rows of the bookmarks table for (user_id, post_id), by position.
BookmarksOf(user_id, post_id) ==
    { i \in 1..Len(bookmarks) :
        bookmarks[i].user_id = user_id /\ bookmarks[i].post_id = post_id }

\* The store's uniqueness constraint on bookmarks (user_id, post_id): the
\* insert of a second row for the pair is refused.
bookmarks_unique(row) == BookmarksOf(row.user_id, row.post_id) = {}

add_bookmark_unchecked(existing) == FALSE

\* add_bookmark, line 89: "if existing.data"
add_bookmark_exists(existing) == existing # {}

\* A bookmark route calls BookmarkService.add_bookmark or remove_bookmark,
\* or the form route starts with BookmarkService.is_bookmarked.
BookmarkCall ==
    \E w \in Serving, a \in BookmarkArgs :
        /\ \/ Invoke(w, "add_bookmark", a, "select_post")
           \/ Invoke(w, "remove_bookmark", a, "select_existing")
           \/ Invoke(w, "toggle_bookmark_form", a, "is_bookmarked")
        /\ UNCHANGED <<posts, comments, boards, bookmarks>>
        /\ UNCHANGED notStore

\* toggle_bookmark_form after its checks: is_bookmarked, then the call of
\* remove_bookmark or of add_bookmark.
toggle_bookmark_form_is_bookmarked ==
    \E w \in Serving :
        /\ Running(w, "toggle_bookmark_form")
        /\ LET c == service_calls[w]
               is_bookmarked == BookmarksOf(c.args.user_id, c.args.post_id) # {}
           IN
           service_calls' = [service_calls EXCEPT ![w] =
               IF is_bookmarked
               THEN [c EXCEPT !.op = "remove_bookmark", !.pc = "select_existing"]
               ELSE [c EXCEPT !.op = "add_bookmark", !.pc = "select_post"]]
        /\ UNCHANGED <<posts, comments, boards, bookmarks>>
        /\ UNCHANGED notStore

BookmarkService_add_bookmark ==
    \E w \in Serving :
        /\ Running(w, "add_bookmark")
        /\ LET c == service_calls[w] IN
           \/ /\ c.pc = "select_post"
              /\ LET post_response == single(ActiveById(posts, c.args.post_id), store_mode) IN
                 IF "raises" \in DOMAIN post_response THEN Raise(w, 500)
                 ELSE IF post_response.data = None THEN Raise(w, 404)
                 ELSE Goto(w, "select_existing", None)
              /\ UNCHANGED bookmarks
           \/ /\ c.pc = "select_existing"
              /\ LET existing == BookmarksOf(c.args.user_id, c.args.post_id) IN
                 IF add_bookmark_exists(existing) THEN Raise(w, 400)
                 ELSE Goto(w, "insert", None)
              /\ UNCHANGED bookmarks
           \/ /\ c.pc = "insert"
              /\ Len(bookmarks) < MaxBookmarks
              /\ LET bookmark_data ==
                         [user_id |-> c.args.user_id, post_id |-> c.args.post_id] IN
                 IF bookmarks_unique(bookmark_data)
                 THEN /\ bookmarks' = Append(bookmarks, bookmark_data)
                      /\ Return(w, bookmark_data, "insert bookmarks")
                 ELSE /\ Raise(w, 500)
                      /\ UNCHANGED bookmarks
        /\ UNCHANGED <<posts, comments, boards>>
        /\ UNCHANGED notStore

BookmarkService_remove_bookmark ==
    \E w \in Serving :
        /\ Running(w, "remove_bookmark")
        /\ LET c == service_calls[w]
               Matches(b) == b.user_id = c.args.user_id /\ b.post_id = c.args.post_id
               Others(b) == ~Matches(b)
           IN
           \/ /\ c.pc = "select_existing"
              /\ IF BookmarksOf(c.args.user_id, c.args.post_id) = {} THEN Raise(w, 404)
                 ELSE Goto(w, "delete", None)
              /\ UNCHANGED bookmarks
           \/ /\ c.pc = "delete"
              /\ bookmarks' = SelectSeq(bookmarks, Others)
              /\ Return(w, TRUE, "delete bookmarks")
        /\ UNCHANGED <<posts, comments, boards>>
        /\ UNCHANGED notStore

\* Two posts by the member, the second soft-deleted; no bookmark; two
\* workers serve requests.
BookmarkInit ==
    /\ posts = {[id |-> "p1", board_id |-> 1, user_id |-> "u1", is_active |-> TRUE],
                [id |-> "p2", board_id |-> 1, user_id |-> "u1", is_active |-> FALSE]}
    /\ comments = {}
    /\ boards = {}
    /\ bookmarks = <<>>
    /\ service_calls = [w \in Workers |-> None]
    /\ StoreEnvironment

MaxBookmarkPage == 3

MaxBookmarkPerPage == 2

ListArgs ==
    [user_id : UserIds, page : 1..MaxBookmarkPage, per_page : 1..MaxBookmarkPerPage]

\* .eq("user_id", user_id).order("created_at", desc=True)
UserBookmarksDesc(user_id) ==
    LET Mine(b) == b.user_id = user_id
        mine == SelectSeq(bookmarks, Mine)
    IN [i \in 1..Len(mine) |-> mine[Len(mine) + 1 - i]]

\* .range(first, last): the rows at the zero-based positions first..last.
RangeOf(rows, first, last) == SubSeq(rows, first + 1, Min(last + 1, Len(rows)))

valid_bookmarks_all(page_rows, posts_dict) == page_rows

\* get_user_bookmarks, lines 52-59: the bookmarks of the page whose post is
\* in posts_dict (the ids of the active posts selected).
valid_bookmarks(page_rows, posts_dict) ==
    LET HasPost(b) == b.post_id \in posts_dict IN SelectSeq(page_rows, HasPost)

\* The bookmarks page calls BookmarkService.get_user_bookmarks, or a post
\* route PostService.delete_post.
ListCall ==
    \E w \in Serving :
        /\ \/ \E a \in ListArgs : Invoke(w, "get_user_bookmarks", a, "count")
           \/ \E post_id \in PostIds, caller \in HttpUsers :
                  Invoke(w, "delete_post", [post_id |-> post_id, user |-> caller],
                         "select_post")
        /\ UNCHANGED <<posts, comments, boards, bookmarks>>
        /\ UNCHANGED notStore

BookmarkService_get_user_bookmarks ==
    \E w \in Serving :
        /\ Running(w, "get_user_bookmarks")
        /\ LET c == service_calls[w]
               offset == (c.args.page - 1) * c.args.per_page
           IN
           \/ /\ c.pc = "count"
              /\ Goto(w, "select_range",
                      [total |-> Len(UserBookmarksDesc(c.args.user_id))])
           \/ /\ c.pc = "select_range"
              /\ LET page_rows == RangeOf(UserBookmarksDesc(c.args.user_id),
                                          offset, offset + c.args.per_page - 1) IN
                 IF page_rows # <<>>
                 THEN Goto(w, "select_posts",
                           [total |-> c.local.total, bookmarks |-> page_rows])
                 ELSE service_calls' = [service_calls EXCEPT ![w] =
                          [c EXCEPT !.pc = "done",
                                    !.out = [ret |-> [bookmarks |-> <<>>] @@
                                        calculate_pagination(c.local.total, c.args.page,
                                                             c.args.per_page)]]]
           \/ /\ c.pc = "select_posts"
              /\ LET post_ids == { c.local.bookmarks[i].post_id :
                                      i \in 1..Len(c.local.bookmarks) }
                     posts_dict == { p.id : p \in { q \in posts :
                                         q.id \in post_ids /\ q.is_active } }
                 IN service_calls' = [service_calls EXCEPT ![w] =
                        [c EXCEPT !.pc = "done",
                                  !.out = [ret |->
                                      [bookmarks |-> valid_bookmarks(c.local.bookmarks,
                                                                     posts_dict)] @@
                                      calculate_pagination(c.local.total, c.args.page,
                                                           c.args.per_page)]]]
        /\ UNCHANGED <<posts, comments, boards, bookmarks>>
        /\ UNCHANGED notStore

\* Two active posts by the member, no bookmark; one worker serves the
\* requests.
ListInit ==
    /\ posts = {[id |-> "p1", board_id |-> 1, user_id |-> "u1", is_active |-> TRUE],
                [id |-> "p2", board_id |-> 1, user_id |-> "u1", is_active |-> TRUE]}
    /\ comments = {}
    /\ boards = {}
    /\ bookmarks = <<>>
    /\ service_calls = [w \in {"w1"} |-> None]
    /\ StoreEnvironment

(***************************************************************************)
(* The read paths: PostService.get_posts_by_board and get_post_by_id, and  *)
(* the board listings of app/routers/boards.py.                            *)
(***************************************************************************)

MaxViews == 2

\* The identity a route resolved with get_current_user: none, the member or
\* the admin.
Requesters == {None} \cup HttpUsers

get_post_by_id_board_missing(found, caller) == found = None

\* get_post_by_id, line 100:
\* "if not board or not BoardService.check_read_permission(board, user)"
get_post_by_id_denied(found, caller) ==
    found = None \/ ~check_read_permission(found, caller)

\* A board or post route calls get_posts_by_board or get_post_by_id, or the
\* home or /boards route lists the boards.
ReadCall ==
    \E w \in Serving, caller \in Requesters :
        /\ \/ \E board_id \in BoardIds :
                  Invoke(w, "get_posts_by_board",
                         [board_id |-> board_id, user |-> caller], "select_board")
           \/ \E post_id \in PostIds, increment_view \in BOOLEAN :
                  /\ increment_view => \A r \in posts : r.view_count < MaxViews
                  /\ Invoke(w, "get_post_by_id",
                            [post_id |-> post_id, user |-> caller,
                             increment_view |-> increment_view], "select_post")
           \/ Invoke(w, "home", [user |-> caller], "select_boards")
        /\ UNCHANGED <<posts, comments, boards, bookmarks>>
        /\ UNCHANGED notStore

PostService_get_posts_by_board ==
    \E w \in Serving :
        /\ Running(w, "get_posts_by_board")
        /\ LET c == service_calls[w] IN
           \/ /\ c.pc = "select_board"
              /\ LET found == get_board_by_id(c.args.board_id) IN
                 IF found = None THEN Raise(w, 404)
                 ELSE IF ~check_read_permission(found, c.args.user) THEN Raise(w, 403)
                 ELSE Goto(w, "count", [board |-> found])
           \/ /\ c.pc = "count"
              /\ Goto(w, "select_posts", c.local)
           \/ /\ c.pc = "select_posts"
              /\ LET rows == { r \in posts :
                                  r.board_id = c.local.board.id /\ r.is_active } IN
                 IF rows # {}
                 THEN Goto(w, "select_users", c.local @@ [posts |-> rows])
                 ELSE service_calls' = [service_calls EXCEPT ![w] =
                          [c EXCEPT !.pc = "done",
                                    !.out = [ret |-> c.local @@ [posts |-> {}]]]]
           \/ /\ c.pc = "select_users"
              /\ service_calls' = [service_calls EXCEPT ![w] =
                     [c EXCEPT !.pc = "done", !.out = [ret |-> c.local]]]
        /\ UNCHANGED <<posts, comments, boards, bookmarks>>
        /\ UNCHANGED notStore

PostService_get_post_by_id ==
    \E w \in Serving :
        /\ Running(w, "get_post_by_id")
        /\ LET c == service_calls[w] IN
           \/ /\ c.pc = "select_post"
              /\ LET post_response == single(ActiveById(posts, c.args.post_id), store_mode) IN
                 IF "raises" \in DOMAIN post_response THEN Raise(w, 404)
                 ELSE IF post_response.data = None THEN Raise(w, 404)
                 ELSE Goto(w, "select_board", [post |-> post_response.data])
              /\ UNCHANGED posts
           \/ /\ c.pc = "select_board"
              /\ LET found == get_board_by_id(c.local.post.board_id) IN
                 IF get_post_by_id_denied(found, c.args.user) THEN Raise(w, 403)
                 ELSE IF c.args.increment_view
                      THEN Goto(w, "rpc", c.local @@ [board |-> found])
                 ELSE Goto(w, "select_author", c.local @@ [board |-> found])
              /\ UNCHANGED posts
           \/ /\ c.pc = "rpc"
              /\ posts' = { IF r.id = c.args.post_id
                            THEN [r EXCEPT !.view_count = @ + 1] ELSE r : r \in posts }
              /\ service_calls' = [service_calls EXCEPT ![w] =
                     [c EXCEPT !.pc = "select_author",
                               !.local = [c.local EXCEPT !.post.view_count = @ + 1],
                               !.writes = Append(@, "rpc increment_view_count")]]
           \/ /\ c.pc = "select_author"
              /\ service_calls' = [service_calls EXCEPT ![w] =
                     [c EXCEPT !.pc = "done", !.out = [ret |-> c.local]]]
              /\ UNCHANGED posts
        /\ UNCHANGED <<comments, boards, bookmarks>>
        /\ UNCHANGED notStore

\* home and list_boards: get_all_boards(), then the boards the requester
\* may read.
home ==
    \E w \in Serving :
        /\ Running(w, "home")
        /\ LET c == service_calls[w]
               all_boards == { b \in boards : b.is_active }
               visible_boards == { b \in all_boards :
                                      check_read_permission(b, c.args.user) }
           IN service_calls' = [service_calls EXCEPT ![w] =
                  [c EXCEPT !.pc = "done", !.out = [ret |-> visible_boards]]]
        /\ UNCHANGED <<posts, comments, boards, bookmarks>>
        /\ UNCHANGED notStore

\* Two boards, each with some read policy and active or not, and one active
\* post on each, not viewed yet; one worker serves the requests.
ReadInit ==
    /\ \E policy \in [{1, 2} -> {"all", "member", "admin"}], active \in [{1, 2} -> BOOLEAN] :
           boards = { [id |-> n, can_read |-> policy[n], is_active |-> active[n]] :
                         n \in {1, 2} }
    /\ posts = {[id |-> "p1", board_id |-> 1, user_id |-> "u1", is_active |-> TRUE,
                 view_count |-> 0],
                [id |-> "p2", board_id |-> 2, user_id |-> "u1", is_active |-> TRUE,
                 view_count |-> 0]}
    /\ comments = {}
    /\ bookmarks = <<>>
    /\ service_calls = [w \in {"w1"} |-> None]
    /\ StoreEnvironment

(***************************************************************************)
(* The write paths of app/services/post.py with the post routes that call  *)
(* create_post.                                                            *)
(***************************************************************************)

\* title: Optional[str] of update_post, None or a title.
OptionalTitles == {None, [html |-> <<"<section>", "\n", "</section>">>]}

create_post_status_unchecked(found, caller) ==
    IF found = None THEN 404 ELSE 200

\* create_post, lines 152-163: the status the board lookup and the write
\* permission lead to, 200 when the method goes on to insert.
create_post_status(found, caller) ==
    IF found = None THEN 404
    ELSE IF ~check_write_permission(found, caller) THEN 403
    ELSE 200

\* A post route calls create_post (the JSON route or the form route),
\* update_post, delete_post or toggle_pin, or a comment route update_comment
\* or delete_comment.
PostCall ==
    \E w \in Serving :
        /\ \/ \E board_id \in BoardIds, caller \in Requesters, form \in BOOLEAN :
                  Invoke(w, "create_post",
                         [board_id |-> board_id, user |-> caller, form |-> form,
                          title |-> [html |-> <<"x">>]], "require_auth")
           \/ \E post_id \in PostIds, caller \in HttpUsers, title \in OptionalTitles :
                  Invoke(w, "update_post",
                         [post_id |-> post_id, user |-> caller, title |-> title],
                         "select_post")
           \/ \E post_id \in PostIds, caller \in HttpUsers :
                  \/ Invoke(w, "delete_post", [post_id |-> post_id, user |-> caller],
                            "select_post")
                  \/ Invoke(w, "toggle_pin", [post_id |-> post_id, user |-> caller],
                            "select_post")
           \/ \E comment_id \in CommentIds, caller \in HttpUsers :
                  \/ Invoke(w, "update_comment",
                            [comment_id |-> comment_id, user |-> caller,
                             content |-> [html |-> <<"x">>]], "select_comment")
                  \/ Invoke(w, "delete_comment",
                            [comment_id |-> comment_id, user |-> caller],
                            "select_comment")
        /\ UNCHANGED <<posts, comments, boards, bookmarks>>
        /\ UNCHANGED notStore

\* routers/posts.py create_post and create_post_form after their CSRF check:
\* require_auth (401) or get_current_user (303 to the login page), then
\* PostService.create_post.
PostService_create_post ==
    \E w \in Serving :
        /\ Running(w, "create_post")
        /\ LET c == service_calls[w] IN
           \/ /\ c.pc = "require_auth"
              /\ IF c.args.user = None
                 THEN Raise(w, IF c.args.form THEN 303 ELSE 401)
                 ELSE Goto(w, "select_board", None)
              /\ UNCHANGED posts
           \/ /\ c.pc = "select_board"
              /\ LET found == get_board_by_id(c.args.board_id)
                     status == create_post_status(found, c.args.user) IN
                 IF status # 200 THEN Raise(w, status)
                 ELSE Goto(w, "insert", [board |-> found])
              /\ UNCHANGED posts
           \/ /\ c.pc = "insert"
              /\ \E id \in PostIds : \A r \in posts : r.id # id
              /\ LET post_data ==
                         [id |-> CHOOSE id \in PostIds : \A r \in posts : r.id # id,
                          board_id |-> c.local.board.id,
                          user_id |-> c.args.user.id,
                          title |-> sanitize_text(c.args.title),
                          is_pinned |-> FALSE,
                          is_active |-> TRUE] IN
                 /\ posts' = posts \cup {post_data}
                 /\ Return(w, post_data.id, "insert posts")
        /\ UNCHANGED <<comments, boards, bookmarks>>
        /\ UNCHANGED notStore

PostService_update_post ==
    \E w \in Serving :
        /\ Running(w, "update_post")
        /\ LET c == service_calls[w] IN
           \/ /\ c.pc = "select_post"
              /\ LET post_response == single(ActiveById(posts, c.args.post_id), store_mode) IN
                 IF "raises" \in DOMAIN post_response THEN Raise(w, 500)
                 ELSE IF post_response.data = None THEN Raise(w, 404)
                 ELSE IF NotAuthorOrAdmin(post_response.data, c.args.user)
                      THEN Raise(w, 403)
                 ELSE Goto(w, "update", None)
              /\ UNCHANGED posts
           \/ /\ c.pc = "update"
              /\ LET update_data ==
                         IF c.args.title # None
                         THEN [title |-> sanitize_text(c.args.title)] ELSE EmptyDict IN
                 posts' = UpdateRow(posts, c.args.post_id, update_data)
              /\ Return(w, c.args.post_id, "update posts")
        /\ UNCHANGED <<comments, boards, bookmarks>>
        /\ UNCHANGED notStore

PostService_toggle_pin ==
    \E w \in Serving :
        /\ Running(w, "toggle_pin")
        /\ LET c == service_calls[w] IN
           \/ /\ c.pc = "select_post"
              /\ IF ~Get(c.args.user, "is_admin", FALSE) THEN Raise(w, 403)
                 ELSE LET post_response ==
                              single(ActiveById(posts, c.args.post_id), store_mode) IN
                      IF "raises" \in DOMAIN post_response THEN Raise(w, 500)
                      ELSE IF post_response.data = None THEN Raise(w, 404)
                      ELSE Goto(w, "update",
                                [new_pin_status |-> ~post_response.data.is_pinned])
              /\ UNCHANGED posts
           \/ /\ c.pc = "update"
              /\ posts' = UpdateRow(posts, c.args.post_id,
                                    [is_pinned |-> c.local.new_pin_status])
              /\ Return(w, c.args.post_id, "update posts")
        /\ UNCHANGED <<comments, boards, bookmarks>>
        /\ UNCHANGED notStore

\* Board 1 is active with write policy "all" or "admin", board 2 is
\* inactive, there is no board 3; the member's post p1 on board 1 carries
\* the member's comment; one worker serves the requests.
PostInit ==
    /\ \E policy \in {"all", "admin"} :
           boards = {[id |-> 1, can_write |-> policy, is_active |-> TRUE],
                     [id |-> 2, can_write |-> "member", is_active |-> FALSE]}
    /\ posts = {[id |-> "p1", board_id |-> 1, user_id |-> "u1",
                 title |-> [html |-> <<"x">>], is_pinned |-> FALSE, is_active |-> TRUE]}
    /\ comments = {[id |-> 1, post_id |-> "p1", user_id |-> "u1", parent_id |-> None,
                    content |-> [html |-> <<"<section>", "x", "</section>">>],
                    is_active |-> TRUE]}
    /\ bookmarks = <<>>
    /\ service_calls = [w \in {"w1"} |-> None]
    /\ StoreEnvironment

(***************************************************************************)
(* CSRF token issuance: the page routes that render a form and the form    *)
(* routes the browser submits it to.  browser is the record                *)
(*   [cookie, pages, issued, submitted, latest, identity]                  *)
(* cookie is the browser's csrf_token cookie, pages the csrf_token each    *)
(* page the browser was sent carried, in order (None for a page rendered   *)
(* without one), issued the number of tokens generated so far; submitted,  *)
(* latest and identity describe the last form submission: the page whose   *)
(* form was submitted, the number of pages the browser had been sent by    *)
(* then, and the session it was made under.                                *)
(***************************************************************************)

MaxRenders == 5

\* generate_csrf_token(): secrets.token_urlsafe(32), an ASCII string; the
\* n-th call returns a value no earlier call returned.
generate_csrf_token(n) == [str |-> <<97 + n>>]

set_cookie_if_absent(jar, value) == IF jar = None THEN value ELSE jar

\* response.set_cookie(key="csrf_token", value=csrf_token, ...): the cookie
\* the browser holds afterwards.
set_cookie(jar, value) == value

\* A page route (home, view_post, login_page, ...) renders its template with
\* a fresh token and sets the csrf_token cookie to it.
RenderPage ==
    /\ Len(browser.pages) < MaxRenders
    /\ LET csrf_token == generate_csrf_token(browser.issued) IN
       browser' = [browser EXCEPT !.cookie = set_cookie(@, csrf_token),
                                  !.pages = Append(@, csrf_token),
                                  !.issued = @ + 1]
    /\ UNCHANGED <<cookie_token, form_token, csrf_result>>
    /\ UNCHANGED notCsrf

\* The browser submits the form of one of the pages it holds to login_form
\* or create_post_form, under some session.  A failed check is answered 403:
\* by login_form with pages/login.html rendered without a token and without
\* a cookie, by create_post_form with an HTTPException.  After a passed
\* check the handler redirects, or renders its error page (status 400) with
\* a fresh token and sets the cookie to it.
SubmitForm ==
    \E i \in 1..Len(browser.pages), route \in {"login_form", "create_post_form"},
       identity \in Requesters, failed \in BOOLEAN :
        LET verified == verify_csrf_token(browser.cookie, browser.pages[i])
            sent == [browser EXCEPT !.submitted = i, !.latest = Len(browser.pages),
                                    !.identity = identity]
            new_csrf == generate_csrf_token(browser.issued)
        IN
        /\ Len(browser.pages) < MaxRenders
        /\ cookie_token' = browser.cookie
        /\ form_token' = browser.pages[i]
        /\ csrf_result' = verified
        /\ browser' =
               IF verified # [ret |-> TRUE]
               THEN IF route = "login_form"
                    THEN [sent EXCEPT !.pages = Append(@, None)]
                    ELSE sent
               ELSE IF failed
                    THEN [sent EXCEPT !.cookie = set_cookie(@, new_csrf),
                                      !.pages = Append(@, new_csrf),
                                      !.issued = @ + 1]
                    ELSE sent
        /\ UNCHANGED notCsrf

\* A browser that has not visited the site.
RenderInit ==
    /\ browser = [cookie |-> None, pages |-> <<>>, issued |-> 0,
                  submitted |-> 0, latest |-> 0, identity |-> None]
    /\ cookie_token = None /\ form_token = None /\ csrf_result = None

(***************************************************************************)
(* app/services/search.py                                                  *)
(***************************************************************************)

\* board_id: Optional[str] of search_posts, None or the id of a board.
OptionalBoardIds == {None} \cup { [id |-> n] : n \in BoardIds }

\* The active posts a search selects: every title matches the query, and
\* the board filter applies when board_id is given.
Matching(board_id) ==
    { r \in posts : r.is_active /\ (board_id # None => r.board_id = board_id.id) }

\* The store's search_posts function, called with search_term, search_type,
\* board_uuid, result_limit and result_offset: the matching active posts.
search_posts_rpc(search_params) == Matching(search_params.board_uuid)

\* The search route calls SearchService.search_posts with the identity
\* get_current_user resolved.
SearchCall ==
    \E w \in Serving, board_id \in OptionalBoardIds, caller \in Requesters :
        /\ Invoke(w, "search_posts", [board_id |-> board_id, user |-> caller], "rpc")
        /\ UNCHANGED <<posts, comments, boards, bookmarks>>
        /\ UNCHANGED notStore

\* search_posts: the search_posts and count_search_posts RPCs and the
\* authors' lookup; when the RPC raises, _fallback_search with its count
\* query, its data query and the authors' lookup.
SearchService_search_posts ==
    \E w \in Serving :
        /\ Running(w, "search_posts")
        /\ LET c == service_calls[w] IN
           \/ /\ c.pc = "rpc"
              /\ \/ Goto(w, "rpc_count",
                         [posts |-> search_posts_rpc([board_uuid |-> c.args.board_id])])
                 \/ Goto(w, "fallback_count", None)
           \/ /\ c.pc = "rpc_count"
              /\ \/ Goto(w, "select_users", c.local)
                 \/ Goto(w, "fallback_count", None)
           \/ /\ c.pc = "fallback_count"
              /\ Goto(w, "fallback_select", None)
           \/ /\ c.pc = "fallback_select"
              /\ Goto(w, "select_users", [posts |-> Matching(c.args.board_id)])
           \/ /\ c.pc = "select_users"
              /\ service_calls' = [service_calls EXCEPT ![w] =
                     [c EXCEPT !.pc = "done", !.out = [ret |-> c.local]]]
        /\ UNCHANGED <<posts, comments, boards, bookmarks>>
        /\ UNCHANGED notStore

\* Board 1 is readable by all, board 2 by admins only; the member's post p1
\* is on board 1, the admin's post p2 on board 2; no bookmark yet; one
\* worker serves the requests.
SearchInit ==
    /\ boards = {[id |-> 1, can_read |-> "all", is_active |-> TRUE],
                 [id |-> 2, can_read |-> "admin", is_active |-> TRUE]}
    /\ posts = {[id |-> "p1", board_id |-> 1, user_id |-> "u1", is_active |-> TRUE],
                [id |-> "p2", board_id |-> 2, user_id |-> "u2", is_active |-> TRUE]}
    /\ comments = {}
    /\ bookmarks = <<>>
    /\ service_calls = [w \in {"w1"} |-> None]
    /\ StoreEnvironment

(***************************************************************************)
(* The user-role routes of app/routers/admin.py: update_user and           *)
(* update_user_form after their CSRF check.                                *)
(***************************************************************************)

\* An admin route is requested under the session of caller for the user
\* user_id: PUT /admin/users/{user_id} with a UserUpdate body that carries
\* is_admin or not, or POST /admin/users/{user_id}/form with is_admin.
AdminCall ==
    \E w \in Serving, caller \in UserIds, user_id \in UserIds :
        /\ \/ \E body \in OptionalKey("is_admin", BOOLEAN) :
                  Invoke(w, "update_user",
                         [caller |-> caller, user_id |-> user_id, user_data |-> body],
                         "require_admin")
           \/ \E is_admin \in BOOLEAN :
                  Invoke(w, "update_user_form",
                         [caller |-> caller, user_id |-> user_id,
                          user_data |-> [is_admin |-> is_admin]],
                         "require_admin")
        /\ UNCHANGED <<posts, comments, boards, bookmarks>>
        /\ UNCHANGED notStore

\* update_user and update_user_form: require_admin reads the caller's row,
\* the handler refuses a change of the caller's own admin status, update_user
\* looks the target up, and AuthService.update_user writes the row.
AuthService_update_user ==
    \E w \in Serving :
        /\ service_calls[w] # None
        /\ service_calls[w].op \in {"update_user", "update_user_form"}
        /\ service_calls[w].pc # "done"
        /\ LET c == service_calls[w] IN
           \/ /\ c.pc = "require_admin"
              /\ LET admin == { u \in users : u.id = c.args.caller } IN
                 IF admin = {} THEN Raise(w, 401)
                 ELSE IF \A u \in admin : ~Get(u, "is_admin", FALSE) THEN Raise(w, 403)
                 ELSE IF c.args.user_id = c.args.caller
                         /\ (c.op = "update_user_form"
                                \/ "is_admin" \in DOMAIN c.args.user_data)
                      THEN Raise(w, 400)
                 ELSE IF c.op = "update_user" THEN Goto(w, "get_user_by_id", None)
                 ELSE Goto(w, "update", None)
              /\ UNCHANGED users
           \/ /\ c.pc = "get_user_by_id"
              /\ IF { u \in users : u.id = c.args.user_id } = {} THEN Raise(w, 404)
                 ELSE Goto(w, "update", None)
              /\ UNCHANGED users
           \/ /\ c.pc = "update"
              /\ users' = UpdateRow(users, c.args.user_id, c.args.user_data)
              /\ Return(w, c.args.user_id, "update users")
        /\ UNCHANGED <<posts, comments, boards, bookmarks>>
        /\ UNCHANGED <<token, now, store_mode, current_user, required>>
        /\ UNCHANGED <<permVars, pageVars, csrfVars, httpVars, sanVars>>

\* The member and the admin; two workers serve the requests.
AdminInit ==
    /\ posts = {} /\ comments = {} /\ boards = {} /\ bookmarks = <<>>
    /\ service_calls = [w \in Workers |-> None]
    /\ StoreEnvironment

(***************************************************************************)
(* Comment threads: CommentService.get_post_comments with create_comment   *)
(* and delete_comment on two active posts.                                 *)
(***************************************************************************)

\* A comment route calls create_comment or delete_comment, or view_post
\* calls get_post_comments.
ThreadCall ==
    \E w \in Serving :
        /\ \/ \E post_id \in PostIds, caller \in HttpUsers,
                 parent_id \in OptionalCommentIds, text \in Contents :
                  Invoke(w, "create_comment",
                         [post_id |-> post_id, user |-> caller, content |-> text,
                          parent_id |-> parent_id], "select_post")
           \/ \E comment_id \in CommentIds, caller \in HttpUsers :
                  Invoke(w, "delete_comment",
                         [comment_id |-> comment_id, user |-> caller], "select_comment")
           \/ \E post_id \in PostIds :
                  Invoke(w, "get_post_comments", [post_id |-> post_id], "select_post")
        /\ UNCHANGED <<posts, comments, boards, bookmarks>>
        /\ UNCHANGED notStore

\* get_post_comments: the post lookup, the active comments of the post in
\* the order of their creation, the authors' lookup, then the tree: the
\* comments without parent are the roots, every other comment is appended
\* to the replies of its parent when the parent is among the selected
\* comments.  The tree is returned as the ids of the roots and, for each
\* selected comment, the ids of its replies.
CommentService_get_post_comments ==
    \E w \in Serving :
        /\ Running(w, "get_post_comments")
        /\ LET c == service_calls[w] IN
           \/ /\ c.pc = "select_post"
              /\ LET post_response == single(ActiveById(posts, c.args.post_id), store_mode) IN
                 IF "raises" \in DOMAIN post_response THEN Raise(w, 500)
                 ELSE IF post_response.data = None THEN Raise(w, 404)
                 ELSE Goto(w, "select_comments", None)
           \/ /\ c.pc = "select_comments"
              /\ LET selected == { r \in comments :
                                      r.post_id = c.args.post_id /\ r.is_active } IN
                 Goto(w, IF selected # {} THEN "select_users" ELSE "build",
                      [comments |-> selected])
           \/ /\ c.pc = "select_users"
              /\ Goto(w, "build", c.local)
           \/ /\ c.pc = "build"
              /\ LET comments_dict == { r.id : r \in c.local.comments }
                     ordered == [i \in 1..Cardinality(comments) |-> i]
                     IsRoot(id) == \E r \in c.local.comments :
                                       r.id = id /\ r.parent_id = None
                     RepliesTo(parent) ==
                         LET IsReply(id) == \E r \in c.local.comments :
                                 r.id = id /\ r.parent_id = [id |-> parent]
                         IN SelectSeq(ordered, IsReply)
                     root_comments == SelectSeq(ordered, IsRoot)
                 IN service_calls' = [service_calls EXCEPT ![w] =
                        [c EXCEPT !.pc = "done",
                                  !.out = [ret |->
                                      [roots |-> root_comments,
                                       replies |-> [id \in comments_dict |->
                                                       RepliesTo(id)]]]]]
        /\ UNCHANGED <<posts, comments, boards, bookmarks>>
        /\ UNCHANGED notStore

\* Two active posts by the member, no comment yet; one worker serves the
\* requests.
ThreadInit ==
    /\ posts = {[id |-> "p1", board_id |-> 1, user_id |-> "u1", is_active |-> TRUE],
                [id |-> "p2", board_id |-> 1, user_id |-> "u1", is_active |-> TRUE]}
    /\ comments = {}
    /\ boards = {}
    /\ bookmarks = <<>>
    /\ service_calls = [w \in {"w1"} |-> None]
    /\ StoreEnvironment

(***************************************************************************)
(* Idle values of the variables a specification does not use.              *)
(***************************************************************************)

PermIdle == board = None /\ user = None /\ permitted = None

PageIdle == total = 0 /\ page = 1 /\ per_page = 1 /\ pagination = None

CsrfIdle ==
    cookie_token = None /\ form_token = None /\ csrf_result = None /\ browser = None

AuthIdle ==
    /\ token = None /\ users = {} /\ now = 0 /\ store_mode = "ok"
    /\ current_user = None /\ required = None

HttpIdle == request = None /\ response = None

SanIdle == content = None /\ sanitized = None

StoreIdle ==
    /\ posts = {} /\ comments = {} /\ boards = {} /\ bookmarks = <<>>
    /\ service_calls = None

(***************************************************************************)
(* Specifications of the pure functions.                                   *)
(***************************************************************************)

InitPerm == PermInit /\ PageIdle /\ CsrfIdle /\ AuthIdle /\ HttpIdle /\ SanIdle /\ StoreIdle

NextPerm == CheckRead \/ CheckWrite

SpecPerm == InitPerm /\ [][NextPerm]_vars

InitPage == PageInit /\ PermIdle /\ CsrfIdle /\ AuthIdle /\ HttpIdle /\ SanIdle /\ StoreIdle

NextPage == CalculatePagination \/ NextPageRequest

SpecPage == InitPage /\ [][NextPage]_vars

InitCsrf == CsrfInit /\ PermIdle /\ PageIdle /\ AuthIdle /\ HttpIdle /\ SanIdle /\ StoreIdle

NextCsrf == VerifyCsrfToken \/ Resubmit

SpecCsrf == InitCsrf /\ [][NextCsrf]_vars

InitAuth == AuthInit /\ PermIdle /\ PageIdle /\ CsrfIdle /\ HttpIdle /\ SanIdle /\ StoreIdle

NextAuth == GetCurrentUser \/ RequireAuth \/ RequireAdmin \/ Tick

SpecAuth == InitAuth /\ [][NextAuth]_vars

InitHttp == HttpInit /\ PermIdle /\ PageIdle /\ CsrfIdle /\ SanIdle /\ StoreIdle

NextHttp ==
    \/ ClientRequest
    \/ ResponseSent
    \/ signup
    \/ login
    \/ logout
    \/ login_form
    \/ signup_form
    \/ create_post
    \/ update_post
    \/ delete_post
    \/ toggle_pin
    \/ create_post_form
    \/ update_post_form
    \/ delete_post_form
    \/ create_comment
    \/ update_comment
    \/ delete_comment
    \/ create_comment_form
    \/ update_comment_form
    \/ delete_comment_form
    \/ create_board
    \/ update_board
    \/ delete_board
    \/ update_user
    \/ create_board_form
    \/ update_board_form
    \/ delete_board_form
    \/ update_user_form
    \/ add_bookmark
    \/ remove_bookmark
    \/ toggle_bookmark_form

SpecHttp == InitHttp /\ [][NextHttp]_vars

InitSan == SanInit /\ PermIdle /\ PageIdle /\ CsrfIdle /\ AuthIdle /\ HttpIdle /\ StoreIdle

NextSan == SanitizeHtml \/ SanitizeText \/ Resubmit_sanitized

SpecSan == InitSan /\ [][NextSan]_vars

(***************************************************************************)
(* Specifications of the service layer.                                    *)
(***************************************************************************)

InitComment == CommentInit /\ PermIdle /\ PageIdle /\ CsrfIdle /\ HttpIdle /\ SanIdle

NextComment ==
    \/ CommentCall
    \/ CommentService_create_comment
    \/ CommentService_update_comment
    \/ CommentService_delete_comment
    \/ CallReturns

SpecComment == InitComment /\ [][NextComment]_vars

InitBoard == BoardInit /\ PermIdle /\ PageIdle /\ CsrfIdle /\ HttpIdle /\ SanIdle

NextBoard ==
    \/ BoardCall
    \/ BoardService_create_board
    \/ BoardService_update_board
    \/ BoardService_delete_board
    \/ PostService_delete_post
    \/ CallReturns

SpecBoard == InitBoard /\ [][NextBoard]_vars

InitBookmark == BookmarkInit /\ PermIdle /\ PageIdle /\ CsrfIdle /\ HttpIdle /\ SanIdle

NextBookmark ==
    \/ BookmarkCall
    \/ toggle_bookmark_form_is_bookmarked
    \/ BookmarkService_add_bookmark
    \/ BookmarkService_remove_bookmark
    \/ CallReturns

SpecBookmark == InitBookmark /\ [][NextBookmark]_vars

InitList == ListInit /\ PermIdle /\ PageIdle /\ CsrfIdle /\ HttpIdle /\ SanIdle

NextList ==
    \/ BookmarkCall
    \/ ListCall
    \/ toggle_bookmark_form_is_bookmarked
    \/ BookmarkService_add_bookmark
    \/ BookmarkService_remove_bookmark
    \/ BookmarkService_get_user_bookmarks
    \/ PostService_delete_post
    \/ CallReturns

SpecList == InitList /\ [][NextList]_vars

InitRead == ReadInit /\ PermIdle /\ PageIdle /\ CsrfIdle /\ HttpIdle /\ SanIdle

NextRead ==
    \/ ReadCall
    \/ PostService_get_posts_by_board
    \/ PostService_get_post_by_id
    \/ home
    \/ CallReturns

SpecRead == InitRead /\ [][NextRead]_vars

InitPost == PostInit /\ PermIdle /\ PageIdle /\ CsrfIdle /\ HttpIdle /\ SanIdle

NextPost ==
    \/ PostCall
    \/ PostService_create_post
    \/ PostService_update_post
    \/ PostService_delete_post
    \/ PostService_toggle_pin
    \/ CommentService_update_comment
    \/ CommentService_delete_comment
    \/ CallReturns

SpecPost == InitPost /\ [][NextPost]_vars

InitRender ==
    RenderInit /\ PermIdle /\ PageIdle /\ AuthIdle /\ HttpIdle /\ SanIdle /\ StoreIdle

NextRender == RenderPage \/ SubmitForm

SpecRender == InitRender /\ [][NextRender]_vars

InitSearch == SearchInit /\ PermIdle /\ PageIdle /\ CsrfIdle /\ HttpIdle /\ SanIdle

NextSearch ==
    \/ SearchCall
    \/ SearchService_search_posts
    \/ BookmarkCall
    \/ ListCall
    \/ toggle_bookmark_form_is_bookmarked
    \/ BookmarkService_add_bookmark
    \/ BookmarkService_remove_bookmark
    \/ BookmarkService_get_user_bookmarks
    \/ PostService_delete_post
    \/ CallReturns

SpecSearch == InitSearch /\ [][NextSearch]_vars

InitAdmin == AdminInit /\ PermIdle /\ PageIdle /\ CsrfIdle /\ HttpIdle /\ SanIdle

NextAdmin == AdminCall \/ AuthService_update_user \/ CallReturns

SpecAdmin == InitAdmin /\ [][NextAdmin]_vars

InitThread == ThreadInit /\ PermIdle /\ PageIdle /\ CsrfIdle /\ HttpIdle /\ SanIdle

NextThread ==
    \/ ThreadCall
    \/ CommentService_create_comment
    \/ CommentService_delete_comment
    \/ CommentService_get_post_comments
    \/ CallReturns

SpecThread == InitThread /\ [][NextThread]_vars

(***************************************************************************)
(* Claims on the permission evaluator.                                     *)
(***************************************************************************)

\* C1: check_read_permission(board, identity): policy "all" is true for every
\* identity; "member" is true iff an identity is present; "admin" is true iff
\* an identity is present and its admin flag is set; any other policy value
\* is false for every identity.
C1_ReadPermission ==
    (permitted # None /\ permitted.op = "read" /\ "can_read" \in DOMAIN board) =>
        /\ board.can_read = "all" => permitted.ret = TRUE
        /\ board.can_read = "member" => permitted.ret = (user # None)
        /\ board.can_read = "admin" =>
               permitted.ret = (user # None /\ user.is_admin)
        /\ board.can_read \notin {"all", "member", "admin"} => permitted.ret = FALSE

\* C1 witness: a member-only board has been refused to an anonymous reader.
C1_Witness ==
    /\ permitted # None /\ permitted.op = "read"
    /\ "can_read" \in DOMAIN board /\ board.can_read = "member"
    /\ user = None /\ permitted.ret = FALSE

\* C2: check_write_permission(board, identity): with no identity the result
\* is false for every can_write policy value, "all" included; with an identity
\* present, "all" and "member" are true and "admin" is true iff the identity's
\* admin flag is set.
C2_WritePermission ==
    (permitted # None /\ permitted.op = "write") =>
        /\ user = None => permitted.ret = FALSE
        /\ (user # None /\ "can_write" \in DOMAIN board) =>
               /\ board.can_write \in {"all", "member"} => permitted.ret = TRUE
               /\ board.can_write = "admin" => permitted.ret = user.is_admin

\* C2 witness: a board writable by "all" has been refused to an anonymous
\* writer.
C2_Witness ==
    /\ permitted # None /\ permitted.op = "write"
    /\ "can_write" \in DOMAIN board /\ board.can_write = "all"
    /\ user = None /\ permitted.ret = FALSE

(***************************************************************************)
(* Claims on the pagination calculator.                                    *)
(***************************************************************************)

\* C6: calculate_pagination(total, page, per_page), total >= 0, page >= 1,
\* per_page >= 1: total_pages is ceil(total / per_page), the least n with
\* n * per_page >= total, and 0 when total is 0; has_prev is (page > 1);
\* has_next is (page < total_pages); total, page and per_page echo the inputs.
C6_PageMetadata ==
    pagination # None =>
        /\ pagination.total_pages \in 0..total
        /\ pagination.total_pages * per_page >= total
        /\ pagination.total_pages > 0 => (pagination.total_pages - 1) * per_page < total
        /\ total = 0 => pagination.total_pages = 0
        /\ pagination.has_prev = (page > 1)
        /\ pagination.has_next = (page < pagination.total_pages)
        /\ pagination.total = total
        /\ pagination.page = page
        /\ pagination.per_page = per_page

\* C6 witness: a total that is not a multiple of per_page has been paginated
\* and the last, partial page is counted.
C6_Witness ==
    /\ pagination # None
    /\ total = 7 /\ per_page = 3 /\ page = 2
    /\ pagination.total_pages = 3
    /\ pagination.has_prev /\ pagination.has_next

\* C7: calculate_pagination with total = 0: for every requested page >= 1 and
\* every per_page >= 1, total_pages is 0, page_range is empty, has_prev is
\* false and has_next is false.
C7_EmptyListing ==
    (pagination # None /\ total = 0) =>
        /\ pagination.total_pages = 0
        /\ pagination.page_range = <<>>
        /\ pagination.has_prev = FALSE
        /\ pagination.has_next = FALSE

\* C8: page_range, for all total >= 0, page >= 1 (page greater than
\* total_pages included) and per_page >= 1, is a contiguous ascending run of
\* integers, every entry lies in [1, total_pages], and it has exactly
\* min(5, total_pages) entries; it is empty when total_pages is 0.
C8_PageRangeWindow ==
    pagination # None =>
        LET r == pagination.page_range
            n == pagination.total_pages
        IN  /\ Len(r) = Min(5, n)
            /\ \A i \in 1..Len(r) : r[i] \in 1..n
            /\ \A i \in 1..(Len(r) - 1) : r[i + 1] = r[i] + 1
            /\ n = 0 => r = <<>>

\* C8 witness: a page beyond the last page has been requested of a listing
\* of more than five pages, and the window is the last five pages.
C8_Witness ==
    /\ pagination # None
    /\ pagination.total_pages = 7 /\ page = 9
    /\ pagination.page_range = <<3, 4, 5, 6, 7>>

\* C9: page_range contains the requested page whenever
\* 1 <= page <= total_pages; it is exactly [page-2 .. page+2] whenever
\* page - 2 >= 1 and page + 2 <= total_pages; for total_pages between 1 and 4
\* and a page in range it is [1 .. total_pages].
C9_PageRangeCentre ==
    pagination # None =>
        LET r == pagination.page_range
            n == pagination.total_pages
        IN  /\ (1 <= page /\ page <= n) => \E i \in 1..Len(r) : r[i] = page
            /\ (page - 2 >= 1 /\ page + 2 <= n) =>
                   r = <<page - 2, page - 1, page, page + 1, page + 2>>
            /\ (n \in 1..4 /\ 1 <= page /\ page <= n) => r = [i \in 1..n |-> i]

\* C9 witness: a page with two pages on either side has been requested.
C9_Witness ==
    /\ pagination # None
    /\ page = 4 /\ pagination.total_pages = 6
    /\ pagination.page_range = <<2, 3, 4, 5, 6>>

(***************************************************************************)
(* Claims on the CSRF validator.                                           *)
(***************************************************************************)

\* C4: verify_csrf_token(cookie_value, submitted_value) returns true if and
\* only if both values are present (not None, not empty) and equal; when
\* either value is absent it returns false and does not raise; for present
\* values a # b it returns false.
C4_VerifyCsrf ==
    csrf_result # None =>
        LET present == ~Not(cookie_token) /\ ~Not(form_token) IN
        /\ (csrf_result = [ret |-> TRUE]) = (present /\ cookie_token = form_token)
        /\ ~present => csrf_result = [ret |-> FALSE]
        /\ (present /\ cookie_token # form_token) => csrf_result = [ret |-> FALSE]

\* verify_csrf_token on ASCII-only values: the part of C4 the code keeps.
C4_VerifyCsrfAscii ==
    (csrf_result # None
        /\ (cookie_token # None => IsAscii(cookie_token.str))
        /\ (form_token # None => IsAscii(form_token.str))) => C4_VerifyCsrf

(***************************************************************************)
(* Claims on the session identity resolver.                                *)
(***************************************************************************)

\* The access_token cookie is a JWT signed under JWT_SECRET with ALGORITHM.
ValidlySigned == token # None /\ "raw" \notin DOMAIN token
                     /\ token.alg = ALGORITHM /\ token.sig_ok

\* The JWT's exp claim has passed.
Expired == "exp" \in DOMAIN token.payload /\ token.payload.exp < now

\* The rows of the users table whose id is the JWT's subject.
SubjectRows ==
    IF "sub" \in DOMAIN token.payload
    THEN { r \in users : r.id = token.payload.sub } ELSE {}

\* C10: get_current_user returns None and does not raise whenever the
\* access_token cookie is absent, malformed, expired, has an invalid
\* signature, carries no subject, or names a subject with no user row; it
\* returns the stored user row only for a validly signed, unexpired token
\* whose subject has a user row.
C10_GetCurrentUser ==
    current_user # None =>
        /\ "ret" \in DOMAIN current_user
        /\ ( \/ ~ValidlySigned
             \/ Expired
             \/ SubjectRows = {} ) => current_user = [ret |-> None]
        /\ current_user # [ret |-> None] =>
               /\ ValidlySigned /\ ~Expired
               /\ current_user.ret \in SubjectRows

\* C10 witness: a validly signed token that names an existing user and whose
\* exp has passed has been resolved to None.
C10_Witness ==
    /\ ValidlySigned /\ Expired /\ SubjectRows # {}
    /\ store_mode = "ok"
    /\ current_user = [ret |-> None]

\* jwt.decode accepts the access_token cookie and its claims name a subject.
DecodedSubject ==
    /\ ValidlySigned
    /\ "ret" \in DOMAIN jwt_decode(token, now)
    /\ "sub" \in DOMAIN token.payload /\ token.payload.sub # ""

\* C11: during session resolution, a failure of the store (the users lookup
\* raises for a validly signed, accepted token) propagates to the caller as
\* an error; it is not normalized to "no identity".
C11_StoreFailurePropagates ==
    (current_user # None /\ DecodedSubject /\ store_mode = "down")
        => "raises" \in DOMAIN current_user

\* What session resolution yields for the access_token cookie.
Identity == get_current_user(token, now, users, store_mode).ret

\* C12: require_auth signals 401 exactly when resolution yields no identity
\* and otherwise returns the identity; require_admin signals 401 when there
\* is no identity, 403 when the identity's admin flag is false, and returns
\* the identity only when it is an admin.
C12_RequireAuthAdmin ==
    required # None =>
        /\ required.op = "require_auth" =>
            /\ (required.out = [raises |-> 401]) = (Identity = None)
            /\ Identity # None => required.out = [ret |-> Identity]
        /\ required.op = "require_admin" =>
            /\ Identity = None => required.out = [raises |-> 401]
            /\ (Identity # None /\ ~Identity.is_admin)
                   => required.out = [raises |-> 403]
            /\ "ret" \in DOMAIN required.out
                   => (required.out.ret = Identity /\ Identity # None
                        /\ Identity.is_admin)
            /\ (Identity # None /\ Identity.is_admin)
                   => required.out = [ret |-> Identity]

\* C12 witness: require_admin has refused, with 403, a resolved identity
\* that is not an admin.
C12_Witness ==
    /\ required # None /\ required.op = "require_admin"
    /\ Identity # None /\ ~Identity.is_admin
    /\ required.out = [raises |-> 403]

(***************************************************************************)
(* Claims on the unsafe routes.                                            *)
(***************************************************************************)

SessionCookies == {"access_token", "refresh_token"}

\* The handler wrote: it made a mutating service call, or set or deleted a
\* session cookie.
Effect ==
    \/ \E i \in 1..Len(response.calls) : response.calls[i] \in MutatingServices
    \/ response.set_cookies \cap SessionCookies # {}
    \/ response.delete_cookies \cap SessionCookies # {}

\* C3: every state-changing endpoint performs its store mutation, or sets or
\* clears session cookies, only when the request's csrf_token cookie and a
\* token the request submitted (header or form field) pass
\* verify_csrf_token.
C3_CsrfBeforeEffect ==
    (response # None /\ Effect) =>
        \E submitted \in {request.csrf_header, request.csrf_form} :
            verify_csrf_token(request.csrf_cookie, submitted) = [ret |-> TRUE]

\* The tokens of the request are ASCII, so that verify_csrf_token returns.
AsciiTokens ==
    \A t \in {request.csrf_cookie, request.csrf_header, request.csrf_form} :
        t # None => IsAscii(t.str)

\* C5 as claimed: on every unsafe endpoint that checks CSRF, a valid request
\* whose csrf_token cookie equals the token in the csrf_token form field, or
\* equals the token in the X-CSRF-Token header, passes the CSRF check,
\* whichever channel the client used.  (Stated for ASCII tokens, so that
\* compare_digest's TypeError plays no part.)
C5_EitherChannel ==
    (response # None /\ response.route \in HeaderRoutes \cup FormRoutes
        /\ request.body_ok /\ AsciiTokens /\ ~Not(request.csrf_cookie)
        /\ (request.csrf_cookie = request.csrf_form
               \/ request.csrf_cookie = request.csrf_header)) =>
        response.csrf = "pass"

\* The channel the handler of route reads the submitted token from.
OwnChannel(route) ==
    IF route \in HeaderRoutes THEN request.csrf_header ELSE request.csrf_form

\* C5 amended: each unsafe endpoint that checks CSRF reads the submitted
\* token from one channel only, the X-CSRF-Token header on the JSON routes
\* and the csrf_token form field on the form routes; a request its handler
\* runs on passes the check exactly when verify_csrf_token returns true for
\* the cookie and the value in that channel, so a token sent only through
\* the other channel does not pass.
C5_OwnChannel ==
    (response # None /\ response.route \in HeaderRoutes \cup FormRoutes) =>
        /\ response.csrf # "not_run" =>
               ((response.csrf = "pass") =
                    (verify_csrf_token(request.csrf_cookie, OwnChannel(response.route))
                         = [ret |-> TRUE]))
        /\ OwnChannel(response.route) = None => response.csrf # "pass"

\* C5 witness: a comment was created through the JSON route by a request
\* that echoed the cookie in the header and sent no form field.
C5_Witness ==
    /\ response # None /\ response.route = "create_comment"
    /\ request.csrf_cookie = [str |-> <<97>>]
    /\ request.csrf_header = request.csrf_cookie
    /\ request.csrf_form = None
    /\ response.csrf = "pass"
    /\ response.calls = <<"CommentService.create_comment">>
    /\ response.status = 200

\* The routes that create, edit or delete a post, a comment, a bookmark, a
\* board or a user's role.
ContentRoutes ==
    (HeaderRoutes \cup FormRoutes) \ {"logout", "login_form", "signup_form"}

\* The response answers a request that passed the CSRF check and carries no
\* valid session.
AnonymousRequest ==
    /\ response # None /\ response.route \in ContentRoutes
    /\ response.csrf = "pass"
    /\ CurrentUser = None

\* C13: a request with no resolved identity never changes forum content:
\* every endpoint that creates, edits or deletes a post, comment, bookmark,
\* board or user role answers an anonymous request (valid CSRF token, no
\* valid session) with 401 or a redirect to the login page, and makes no
\* mutating service call.
C13_AnonymousNoMutation ==
    AnonymousRequest =>
        /\ \/ response.status = 401
           \/ response.status = 303 /\ response.redirect = "/auth/login"
        /\ \A k \in 1..Len(response.calls) : response.calls[k] \notin MutatingServices

\* C13 witness: a post-deletion form submitted with a valid CSRF token and
\* a session cookie whose signature is forged was sent to the login page.
C13_Witness ==
    /\ AnonymousRequest
    /\ response.route = "delete_post_form"
    /\ request.access_token # None
    /\ response.status = 303 /\ response.redirect = "/auth/login"
    /\ response.calls = <<>>

\* C20: both sanitizer policies are idempotent: for every input s,
\* sanitize_html(sanitize_html(s)) = sanitize_html(s) and
\* sanitize_text(sanitize_text(s)) = sanitize_text(s); absent or empty input
\* is passed through unchanged.
C20_SanitizeIdempotent ==
    sanitized # None =>
        /\ sanitized.twice = sanitized.once
        /\ (content = None \/ content.html = <<>>) => sanitized.once = content

\* The part of C20 about sanitize_text and about absent or empty input.
C20_SanitizeTextIdempotent ==
    (sanitized # None /\ (sanitized.op = "sanitize_text" \/ content = None
                            \/ content.html = <<>>))
        => C20_SanitizeIdempotent

\* The stored comment a parent_id names, if there is one.
CommentsNamed(parent_id) ==
    IF parent_id = None THEN {} ELSE { p \in comments : p.id = parent_id.id }

\* C14: comment nesting depth never exceeds 2: create_comment rejects (and
\* inserts nothing) whenever the named parent comment itself has a non-null
\* parent, and after any sequence of create_comment, update_comment and
\* delete_comment calls no stored comment has a parent whose own parent is
\* non-null.
C14_CommentDepth ==
    /\ \A c \in comments : \A p \in CommentsNamed(c.parent_id) : p.parent_id = None
    /\ \A w \in Serving :
           LET call == service_calls[w] IN
           (call # None /\ call.op = "create_comment" /\ call.pc = "done"
               /\ \E p \in CommentsNamed(call.args.parent_id) : p.parent_id # None)
           => ("raises" \in DOMAIN call.out /\ call.writes = <<>>)

\* C14 witness: a reply to an active reply has been refused with 400 and has
\* inserted nothing.
C14_Witness ==
    \E w \in Serving :
        LET call == service_calls[w] IN
        /\ call # None /\ call.op = "create_comment" /\ call.pc = "done"
        /\ \E p \in CommentsNamed(call.args.parent_id) :
               p.parent_id # None /\ p.is_active
        /\ call.out = [raises |-> 400]
        /\ call.writes = <<>>

\* The active posts that reference board_id.
ActivePostsOf(board_id) == { p \in posts : p.board_id = board_id /\ p.is_active }

\* C15: delete_board on an existing active board: if at least one active
\* post references the board the call is rejected and the board stays active
\* and unchanged; if no active post references it the board's active flag is
\* set to false and the board record is retained; on a missing or already
\* inactive board it reports not-found and changes nothing.
C15_DeleteBoard ==
    \A w \in Serving :
        LET call == service_calls[w]
            rows == { b \in boards : b.id = call.args.board_id }
        IN
        (call # None /\ call.op = "delete_board" /\ call.pc = "done") =>
            \/ /\ call.out = [raises |-> 400]
               /\ call.writes = <<>>
               /\ \E b \in rows : b = call.local /\ b.is_active
               /\ ActivePostsOf(call.args.board_id) # {}
            \/ /\ call.out = [ret |-> TRUE]
               /\ call.writes = <<"update boards">>
               /\ rows = {[call.local EXCEPT !.is_active = FALSE]}
               /\ call.local.is_active
               /\ ActivePostsOf(call.args.board_id) = {}
            \/ /\ call.out = [raises |-> 404]
               /\ call.writes = <<>>
               /\ \A b \in rows : ~b.is_active

\* C15 witness: delete_board has soft-deleted a board that no active post
\* references, and the row is still in the table.
C15_Witness ==
    \E w \in Serving :
        LET call == service_calls[w] IN
        /\ call # None /\ call.op = "delete_board" /\ call.pc = "done"
        /\ call.out = [ret |-> TRUE]
        /\ \E b \in boards : b.id = call.args.board_id /\ ~b.is_active

\* C15, second witness: delete_board has refused, with 400, a board that an
\* active post references.
C15_Rejected ==
    \E w \in Serving :
        LET call == service_calls[w] IN
        /\ call # None /\ call.op = "delete_board" /\ call.pc = "done"
        /\ call.out = [raises |-> 400]

\* No two boards, active or inactive, share a slug.
UniqueSlugs == \A b1, b2 \in boards : b1.slug = b2.slug => b1 = b2

\* A finished create_board either was refused with 400 and inserted nothing,
\* its slug being held by a board, or inserted the only board of its slug.
CreateBoardOutcome ==
    \A w \in Serving :
        LET call == service_calls[w]
            held == { b \in boards : b.slug = call.args.slug }
        IN
        (call # None /\ call.op = "create_board" /\ call.pc = "done") =>
            \/ call.out = [raises |-> 400] /\ call.writes = <<>> /\ held # {}
            \/ /\ "ret" \in DOMAIN call.out
               /\ call.writes = <<"insert boards">>
               /\ \A b \in held : b.id = call.out.ret

\* Every board keeps its row and its slug in the step.
SlugsKept ==
    \A b \in boards : \E b2 \in boards' : b2.id = b.id /\ b2.slug = b.slug

\* C16: board slugs are immutable and unique: after any sequence of board
\* create, update and delete requests issued through the admin routes, every
\* board's slug equals the slug it was created with, no two boards (active
\* or inactive) share a slug, and create_board with a slug already held by
\* any board, including a soft-deleted one, is rejected without inserting.
C16_BoardSlugs ==
    /\ [](UniqueSlugs /\ CreateBoardOutcome)
    /\ [][SlugsKept]_vars

\* C16 witness: create_board with the slug of a soft-deleted board has been
\* refused with 400, after an update of that board was sent a new slug.
C16_Witness ==
    \E w \in Serving :
        LET call == service_calls[w] IN
        /\ call # None /\ call.op = "create_board" /\ call.pc = "done"
        /\ call.out = [raises |-> 400]
        /\ \E b \in boards : b.slug = call.args.slug /\ ~b.is_active
        /\ \E b \in boards : b.name # [html |-> <<"x">>]

\* At most one row of the bookmarks table for each (user, post) pair.
OneBookmarkPerPair ==
    \A a \in BookmarkArgs : Cardinality(BookmarksOf(a.user_id, a.post_id)) <= 1

\* A worker inside add_bookmark, past the post lookup, whose pair is
\* bookmarked, is refused when it takes its step: with 400 at the existence
\* check, and the table is left as it is.
AddRejected ==
    \A w \in Serving :
        LET call == service_calls[w] IN
        (/\ call # None /\ call.op = "add_bookmark"
         /\ call.pc \in {"select_existing", "insert"}
         /\ BookmarksOf(call.args.user_id, call.args.post_id) # {}
         /\ service_calls'[w] # call)
        => /\ "raises" \in DOMAIN service_calls'[w].out
           /\ call.pc = "select_existing" => service_calls'[w].out = [raises |-> 400]
           /\ service_calls'[w].writes = <<>>
           /\ bookmarks' = bookmarks

RowsKept ==
    /\ \A p \in posts : \E q \in posts' : q.id = p.id
    /\ \A c \in comments : \E d \in comments' : d.id = c.id
    /\ \A b \in boards : \E d \in boards' : d.id = b.id

\* Every bookmarked pair is still bookmarked after the step.
BookmarksKept ==
    \A i \in 1..Len(bookmarks) :
        \E j \in 1..Len(bookmarks') : bookmarks'[j] = bookmarks[i]

\* C18: no application operation physically removes a record from the
\* store: deleting a post, comment, board or bookmark only changes a flag on
\* the record, and the record still exists afterwards.
C18_NoHardDelete == [][RowsKept /\ BookmarksKept]_vars

\* The part of C18 about posts, comments and boards.
C18_SoftDeletedRowsKept == [][RowsKept]_vars

\* The post post_id is active.
ActivePost(post_id) == \E p \in posts : p.id = post_id /\ p.is_active

\* The bookmarks of the page a get_user_bookmarks call asks for: those of
\* the user, newest first, at positions (page-1)*per_page+1 .. page*per_page.
RequestedPage(a) ==
    LET mine == UserBookmarksDesc(a.user_id) IN
    { mine[k] : k \in { j \in 1..Len(mine) :
                          /\ j > (a.page - 1) * a.per_page
                          /\ j <= a.page * a.per_page } }

\* A finished get_user_bookmarks returns just the bookmarks of the
\* requested page whose post is active.
ListedBookmarks ==
    \A w \in Serving :
        LET call == service_calls[w] IN
        (call # None /\ call.op = "get_user_bookmarks" /\ call.pc = "done") =>
            /\ "ret" \in DOMAIN call.out
            /\ LET returned == { call.out.ret.bookmarks[i] :
                                   i \in 1..Len(call.out.ret.bookmarks) } IN
               /\ \A b \in returned : ActivePost(b.post_id)
               /\ returned = { b \in RequestedPage(call.args) : ActivePost(b.post_id) }

\* A step that soft-deletes a post leaves the bookmarks table as it is.
BookmarksNotCascaded == (posts' # posts) => (bookmarks' = bookmarks)

\* C19: after a bookmarked post is soft-deleted, get_user_bookmarks never
\* returns the bookmark for that post on any page, while the bookmark record
\* itself stays in the store (filtered at read time, not cascaded);
\* bookmarks of active posts on the requested page are all returned.
C19_DeletedPostBookmarks ==
    /\ []ListedBookmarks
    /\ [][BookmarksNotCascaded]_vars

\* C19 witness: get_user_bookmarks has returned a page that leaves out the
\* bookmark of a soft-deleted post, whose row is still in the table, and
\* holds the bookmark of an active post.
C19_Witness ==
    \E w \in Serving :
        LET call == service_calls[w] IN
        /\ call # None /\ call.op = "get_user_bookmarks" /\ call.pc = "done"
        /\ \E b \in RequestedPage(call.args) : ~ActivePost(b.post_id)
        /\ Len(call.out.ret.bookmarks) = 1
        /\ call.out.ret.total = 2

(***************************************************************************)
(* C21: a failed CSRF check is fail-closed                                 *)
(***************************************************************************)

\* The request's CSRF check cannot pass: the csrf_token cookie is missing,
\* the token in the channel the handler reads is missing, or the two differ.
CsrfFailure ==
    \/ Not(request.csrf_cookie)
    \/ Not(OwnChannel(request.route))
    \/ request.csrf_cookie # OwnChannel(request.route)

\* The response carries no trace of a side effect: no service was called and
\* no cookie was set or deleted.
NoSideEffect ==
    /\ response.calls = <<>>
    /\ response.set_cookies = {}
    /\ response.delete_cookies = {}

\* C21: on every endpoint that checks CSRF, a request whose csrf_token
\* cookie is missing, whose submitted token is missing, or whose two values
\* differ is rejected with status 403 and has no side effect: no service is
\* called and no session cookie is set or cleared, whatever identity the
\* request carries.
C21_CsrfFailClosed ==
    (response # None /\ response.route \in HeaderRoutes \cup FormRoutes
        /\ request.body_ok /\ CsrfFailure) =>
        (response.status = 403 /\ NoSideEffect)

\* What the handlers do keep: such a request is answered 403, 422 or 500 and
\* has no side effect.
C21_RejectedWithoutEffect ==
    (response # None /\ response.route \in HeaderRoutes \cup FormRoutes
        /\ request.body_ok /\ CsrfFailure) =>
        (response.status \in {403, 422, 500} /\ NoSideEffect)


(***************************************************************************)
(* C22: read permission on the board and post read paths                   *)
(***************************************************************************)

\* The board with id board_id is active and caller may read it.
Readable(board_id, caller) ==
    \E b \in boards : b.id = board_id /\ b.is_active /\ check_read_permission(b, caller)

\* The board the post with id post_id is on.
BoardOf(post_id) == (CHOOSE r \in posts : r.id = post_id).board_id

\* C22: get_posts_by_board and get_post_by_id return post data only when
\* check_read_permission(board, requester) is true; on an active board the
\* requester may not read they fail with 403, and get_post_by_id has not
\* incremented the view count; the home and /boards listings are exactly
\* the active boards the requester may read.
C22_ReadPermission ==
    \A w \in Serving :
        LET c == service_calls[w] IN
        c # None =>
            /\ (c.op = "get_posts_by_board" /\ c.pc = "done") =>
                   /\ "ret" \in DOMAIN c.out =>
                          /\ Readable(c.args.board_id, c.args.user)
                          /\ \A r \in c.out.ret.posts : r.board_id = c.args.board_id
                   /\ ((\E b \in boards : b.id = c.args.board_id /\ b.is_active)
                           /\ ~Readable(c.args.board_id, c.args.user))
                          => c.out = [raises |-> 403]
            /\ (c.op = "get_post_by_id" /\ c.pc = "done") =>
                   /\ "ret" \in DOMAIN c.out =>
                          /\ Readable(BoardOf(c.args.post_id), c.args.user)
                          /\ c.out.ret.post.id = c.args.post_id
                   /\ ~Readable(BoardOf(c.args.post_id), c.args.user)
                          => c.out = [raises |-> 403]
            /\ (c.op = "get_post_by_id" /\ c.writes # <<>>) =>
                   Readable(BoardOf(c.args.post_id), c.args.user)
            /\ (c.op = "home" /\ c.pc = "done") =>
                   c.out = [ret |-> { b \in boards :
                                         b.is_active /\ check_read_permission(b, c.args.user) }]

\* C22 witness: the member was refused a post on an admin-only board, and the
\* post has not been viewed.
C22_Witness ==
    \E w \in Serving :
        LET c == service_calls[w] IN
        /\ c # None /\ c.op = "get_post_by_id" /\ c.pc = "done"
        /\ c.args.user = [id |-> "u1", is_admin |-> FALSE]
        /\ c.args.increment_view
        /\ c.out = [raises |-> 403]
        /\ \E b \in boards : b.id = BoardOf(c.args.post_id) /\ b.is_active
                                /\ b.can_read = "admin"
        /\ \A r \in posts : r.id = c.args.post_id => r.view_count = 0

(***************************************************************************)
(* C23: create_post                                                        *)
(***************************************************************************)

\* The board with id board_id is active and caller may write on it.
Writable(board_id, caller) ==
    \E b \in boards : b.id = board_id /\ b.is_active /\ check_write_permission(b, caller)

\* Every finished call of create_post ended as the claim says.
CreatePostOutcome ==
    \A w \in Serving :
        LET c == service_calls[w] IN
        (c # None /\ c.op = "create_post" /\ c.pc = "done") =>
            IF c.args.user = None
            THEN c.out \in {[raises |-> 401], [raises |-> 303]} /\ c.writes = <<>>
            ELSE IF ~\E b \in boards : b.id = c.args.board_id /\ b.is_active
            THEN c.out = [raises |-> 404] /\ c.writes = <<>>
            ELSE IF ~Writable(c.args.board_id, c.args.user)
            THEN c.out = [raises |-> 403] /\ c.writes = <<>>
            ELSE "ret" \in DOMAIN c.out

\* A step that adds a row to posts is the insert of a create_post call made
\* by an identified actor who may write on the board, which is active.
CreatePostInsert ==
    \A r \in { q \in posts' : \A old \in posts : old.id # q.id } :
        \E w \in Serving :
            LET c == service_calls[w] IN
            /\ c # None /\ c.op = "create_post" /\ c.pc = "insert"
            /\ c.args.user # None /\ r.user_id = c.args.user.id
            /\ r.board_id = c.args.board_id
            /\ Writable(c.args.board_id, c.args.user)

\* C23: create_post inserts a post only when the target board exists, is
\* active and check_write_permission(board, actor) is true; otherwise it
\* fails, with 404 for a missing or inactive board and 403 for a denied
\* actor, and inserts nothing; an anonymous client creates no post, on a
\* board whose can_write policy is "all" either.
C23_CreatePost == []CreatePostOutcome /\ [][CreatePostInsert]_vars

\* C23 witness: an anonymous request to create a post on the active board
\* with write policy "all" has been refused and posts holds p1 only.
C23_Witness ==
    \E w \in Serving :
        LET c == service_calls[w] IN
        /\ c # None /\ c.op = "create_post" /\ c.pc = "done"
        /\ c.args.user = None /\ c.out = [raises |-> 401]
        /\ \E b \in boards : b.id = c.args.board_id /\ b.is_active /\ b.can_write = "all"
        /\ { r.id : r \in posts } = {"p1"}

(***************************************************************************)
(* C24: who may change a post or a comment                                 *)
(***************************************************************************)

\* The row of table' with the id of row r.
After(table_after, r) == CHOOSE q \in table_after : q.id = r.id

\* A step that changes a stored post is the update of a toggle_pin call by
\* an admin, changing the pinned flag only, or of an update_post or
\* delete_post call by the post's author or an admin.
PostChange ==
    \A r \in posts :
        After(posts', r) # r =>
            \E w \in Serving :
                LET c == service_calls[w] IN
                /\ c # None /\ c.pc = "update"
                /\ c.op \in {"update_post", "delete_post", "toggle_pin"}
                /\ c.args.post_id = r.id
                /\ IF c.op = "toggle_pin"
                   THEN /\ c.args.user.is_admin
                        /\ After(posts', r) = [r EXCEPT !.is_pinned = ~r.is_pinned]
                   ELSE r.user_id = c.args.user.id \/ c.args.user.is_admin

\* A step that changes a stored comment is the update of an update_comment
\* or delete_comment call by the comment's author or an admin.
CommentChange ==
    \A r \in comments :
        After(comments', r) # r =>
            \E w \in Serving :
                LET c == service_calls[w] IN
                /\ c # None /\ c.pc = "update"
                /\ c.op \in {"update_comment", "delete_comment"}
                /\ c.args.comment_id = r.id
                /\ (r.user_id = c.args.user.id \/ c.args.user.is_admin)

\* A finished call on an active target by an actor who is neither its author
\* nor an admin, or of toggle_pin by an actor who is no admin, raised 403 and
\* wrote nothing.
Denied ==
    \A w \in Serving :
        LET c == service_calls[w] IN
        (c # None /\ c.pc = "done") =>
            /\ (c.op \in {"update_post", "delete_post"}
                   /\ \E r \in posts : r.id = c.args.post_id /\ r.is_active
                                          /\ NotAuthorOrAdmin(r, c.args.user))
                   => (c.out = [raises |-> 403] /\ c.writes = <<>>)
            /\ (c.op \in {"update_comment", "delete_comment"}
                   /\ \E r \in comments : r.id = c.args.comment_id /\ r.is_active
                                             /\ NotAuthorOrAdmin(r, c.args.user))
                   => (c.out = [raises |-> 403] /\ c.writes = <<>>)
            /\ (c.op = "toggle_pin" /\ ~c.args.user.is_admin)
                   => (c.out = [raises |-> 403] /\ c.writes = <<>>)

\* C24: update_post, delete_post, update_comment and delete_comment change
\* the target only when the actor is its author or has the admin flag, and
\* toggle_pin changes the pinned flag only when the actor has the admin
\* flag; a call by any other actor on an active target fails with 403 and
\* leaves the target unchanged.
C24_MutationAuthorization == []Denied /\ [][PostChange /\ CommentChange]_vars

\* C24 witness: the member was refused the deletion of the admin's active
\* post, and the admin has pinned a post.
C24_Witness ==
    /\ \E w \in Serving :
           LET c == service_calls[w] IN
           /\ c # None /\ c.op = "delete_post" /\ c.pc = "done"
           /\ c.args.user = [id |-> "u1", is_admin |-> FALSE]
           /\ c.out = [raises |-> 403]
           /\ \E r \in posts : r.id = c.args.post_id /\ r.user_id = "u2" /\ r.is_active
    /\ \E r \in posts : r.is_pinned

(***************************************************************************)
(* C25: active posts and inactive boards                                   *)
(***************************************************************************)

\* C25: in every reachable state no inactive board is referenced by an
\* active post, whatever calls of delete_post, delete_board and update_board
\* (its is_active field included) were made.
C25_NoActivePostOnInactiveBoard ==
    \A p \in posts, b \in boards :
        (p.is_active /\ p.board_id = b.id) => b.is_active

(***************************************************************************)
(* C26: reissued CSRF tokens                                               *)
(***************************************************************************)

\* The last form submission was made when the browser had been sent at
\* least two pages.
SubmittedAfterTwoPages == csrf_result # None /\ browser.latest >= 2

\* C26 as claimed: every rendered page carries a fresh token and overwrites
\* the csrf_token cookie with it, so that once the browser has been sent two
\* pages or more, a form submission passes the CSRF check exactly when it
\* carries the token of the page rendered last.
C26_LatestPageOnly ==
    /\ browser.pages # <<>> => browser.pages[Len(browser.pages)] = browser.cookie
    /\ SubmittedAfterTwoPages =>
           ((csrf_result = [ret |-> TRUE]) <=> (browser.submitted = browser.latest))

\* Among the first k pages the browser was sent, the last that carried a
\* token; 0 when none did.
LastIssuing(k) ==
    LET issuing == {0} \cup { i \in 1..k : browser.pages[i] # None } IN
    CHOOSE i \in issuing : \A j \in issuing : j <= i

\* C26 amended: every page rendered for a GET request, and every error page
\* a form route renders after a passed CSRF check, carries a fresh token and
\* overwrites the csrf_token cookie with it; the 403 page login_form renders
\* after a failed check carries no token and leaves the cookie as it was.
\* So the cookie is always the token issued last, and once the browser has
\* been sent two pages or more a form submission passes the check exactly
\* when it carries the token of the last page that was rendered with one;
\* the outcome is that of comparing cookie and submitted token, whatever
\* the session.
C26_LatestIssuedOnly ==
    /\ browser.issued > 0 => browser.cookie = generate_csrf_token(browser.issued - 1)
    /\ csrf_result # None =>
           csrf_result = [ret |-> (~Not(form_token) /\ form_token = cookie_token)]
    /\ SubmittedAfterTwoPages =>
           ((csrf_result = [ret |-> TRUE])
                <=> (browser.submitted = LastIssuing(browser.latest)))

\* C26 witness: after two page renders the form of the first page was
\* submitted and rejected.
C26_Witness ==
    /\ SubmittedAfterTwoPages
    /\ browser.latest = 2 /\ browser.submitted = 1
    /\ browser.pages[1] = generate_csrf_token(0)
    /\ browser.pages[2] = generate_csrf_token(1)
    /\ csrf_result = [ret |-> FALSE]

(***************************************************************************)
(* C27: search and the bookmarks listing                                   *)
(***************************************************************************)

\* C27: every post returned to a requester by search_posts (through the RPC
\* or through _fallback_search) or by get_user_bookmarks belongs to a board
\* for which check_read_permission(board, requester) is true.
C27_ReadableOnly ==
    \A w \in Serving :
        LET c == service_calls[w] IN
        (c # None /\ c.pc = "done" /\ "ret" \in DOMAIN c.out) =>
            /\ c.op = "search_posts" =>
                   \A r \in c.out.ret.posts : Readable(r.board_id, c.args.user)
            /\ c.op = "get_user_bookmarks" =>
                   \A i \in 1..Len(c.out.ret.bookmarks) :
                       Readable(BoardOf(c.out.ret.bookmarks[i].post_id),
                                CHOOSE u \in users : u.id = c.args.user_id)

\* C27 for the bookmarks listing alone.
C27_ReadableBookmarks ==
    \A w \in Serving :
        LET c == service_calls[w] IN
        (c # None /\ c.pc = "done" /\ "ret" \in DOMAIN c.out
            /\ c.op = "get_user_bookmarks") =>
            \A i \in 1..Len(c.out.ret.bookmarks) :
                Readable(BoardOf(c.out.ret.bookmarks[i].post_id),
                         CHOOSE u \in users : u.id = c.args.user_id)

(***************************************************************************)
(* C28: the set of admins                                                  *)
(***************************************************************************)

\* C28: the set of admins never becomes empty under any interleaving of
\* user-role update requests whose require_admin check and role update are
\* separate steps.
C28_AdminRemains == \E u \in users : u.is_admin

\* The other half of C28: a finished request of an admin that would change
\* the admin's own flag was rejected with 400 and wrote nothing.
C28_OwnFlagRejected ==
    \A w \in Serving :
        LET c == service_calls[w] IN
        (c # None /\ c.pc = "done" /\ c.op \in {"update_user", "update_user_form"}
            /\ c.args.user_id = c.args.caller
            /\ "is_admin" \in DOMAIN c.args.user_data) =>
            ("raises" \in DOMAIN c.out /\ c.writes = <<>>)

(***************************************************************************)
(* C29, C30: replies and the comment tree                                  *)
(***************************************************************************)

\* C29: every stored reply belongs to the same post as its parent: a
\* comment with a non-null parent_id has the post_id of its parent.
C29_ReplyOnParentsPost ==
    \A r \in comments, parent \in comments :
        (r.parent_id = [id |-> parent.id]) => r.post_id = parent.post_id

\* The ids in the tree get_post_comments returned, each as often as it
\* appears as a root or in the replies of a root.
Shown(tree) ==
    LET Flatten[i \in 0..Len(tree.roots)] ==
            IF i = 0 THEN <<>>
            ELSE Flatten[i - 1] \o <<tree.roots[i]>> \o tree.replies[tree.roots[i]]
    IN Flatten[Len(tree.roots)]

\* The tree a finished get_post_comments call returned holds every active
\* comment of the post exactly once, as a root or in the replies of a root,
\* and no other comment.
TreeComplete ==
    \A w \in Serving :
        LET c == service_calls[w] IN
        (c # None /\ c.op = "get_post_comments" /\ c.pc = "done"
            /\ "ret" \in DOMAIN c.out) =>
            LET shown == Shown(c.out.ret) IN
            \A r \in comments :
                Cardinality({ i \in 1..Len(shown) : shown[i] = r.id })
                    = IF r.post_id = c.args.post_id /\ r.is_active THEN 1 ELSE 0

\* C30: the tree get_post_comments returns for an active post holds every
\* active comment of the post exactly once, as a root or in the replies of
\* a root, the active replies whose parent was soft-deleted included, and no
\* inactive comment.  (Stated for stores in which every reply is on the
\* post of its parent, so that C29 plays no part.)
C30_TreeComplete == C29_ReplyOnParentsPost => TreeComplete

====
